---------------------------- MODULE Spec2Model ----------------------------
(***************************************************************************)
(* A model of the FBX binary pull parser of fbxcel (src/parser/binary):    *)
(* the parser sources (BasicSource, SeekableSource, LimitedSeekReader),    *)
(* the root parser state machine, the subtree views and the attribute      *)
(* iterator, run over a family of encoded byte streams.                    *)
(***************************************************************************)
EXTENDS Integers, Sequences, FiniteSets, TLC

(***************************************************************************)
(* Bounds of the model.                                                    *)
(***************************************************************************)
\* How many SubtreeParser views may be stacked on the root parser.
MaxViews == 2
\* Largest number of bytes one read through a value sub-reader asks for.
MaxRead == 2
\* How many times next_attribute is called on the attributes of one node.
MaxFetch == 4
MaxBuf == 3

(***************************************************************************)
(* Bytes and little-endian integers.                                       *)
(***************************************************************************)
\* F applied to the value of v, which is computed once.
Let(v, F(_)) == CHOOSE r \in {F(x) : x \in {v}} : TRUE

Min(a, b) == IF a <= b THEN a ELSE b
Max(a, b) == IF a >= b THEN a ELSE b

Zeros(n) == [i \in 1..n |-> 0]

\* The w-byte little-endian encoding of n (what the writer of a stream does).
RECURSIVE LE(_, _)
LE(n, w) == IF w = 0 THEN <<>> ELSE <<n % 256>> \o LE(n \div 256, w - 1)

\* The sum of little-endian bytes.
RECURSIVE le_sum(_)
le_sum(bytes) ==
    IF bytes = <<>> THEN 0
    ELSE IF \A i \in 1..Len(bytes) : bytes[i] = 0 THEN 0
    ELSE bytes[1] + 256 * le_sum(Tail(bytes))

\* ReadLittleEndian::read_u32 / read_u64: the value of little-endian bytes.
\* A 64-bit value v >= 2^63 is held as its representative v - 2^64, so that
\* sums of 64-bit values are right modulo 2^64.
from_le(bytes) ==
    IF Len(bytes) = 8 /\ bytes[8] >= 128
    THEN -1 - le_sum([i \in 1..8 |-> 255 - bytes[i]])
    ELSE le_sum(bytes)

RECURSIVE Flatten(_)
Flatten(ss) == IF ss = <<>> THEN <<>> ELSE Head(ss) \o Flatten(Tail(ss))

(***************************************************************************)
(* The wire format: the encoder that builds the input streams.             *)
(***************************************************************************)
\* b"Kaydara FBX Binary  \x00"
MAGIC == <<75, 97, 121, 100, 97, 114, 97, 32, 70, 66, 88, 32,
           66, 105, 110, 97, 114, 121, 32, 32, 0>>
UNKNOWN_BYTES == <<26, 0>>

\* Width of the three length fields of a node header for an FBX version.
FieldWidth(version) == IF version < 7500 THEN 4 ELSE 8

\* Attribute encodings: type code, then the value.
AttrI32(v)     == <<73>> \o LE(v, 4)
AttrI16(v)     == <<89>> \o LE(v, 2)
AttrBool(b)    == <<67, b>>
AttrF64(bits)  == <<68>> \o LE(bits, 8)
AttrF32(bits)  == <<70>> \o LE(bits, 4)
AttrI64(v)     == <<76>> \o LE(v, 8)
AttrString(bs) == <<83>> \o LE(Len(bs), 4) \o bs
AttrBinary(bs) == <<82>> \o LE(Len(bs), 4) \o bs
AttrArray(code, n, enc, payload) ==
    <<code>> \o LE(n, 4) \o LE(enc, 4) \o LE(Len(payload), 4) \o payload

\* A node to encode.  term: the node ends with a null header.  dEnd, dNum and
\* dLen are added to the true end_offset, num_attributes and
\* bytelen_attributes (all 0 in a well-formed stream).
Node(name, attrs, kids, term) ==
    [name |-> name, attrs |-> attrs, kids |-> kids, term |-> term,
     dEnd |-> 0, dNum |-> 0, dLen |-> 0]

RECURSIVE EncNode(_, _, _), EncKids(_, _, _)
EncNode(n, start, w) ==
    LET attrBytes == Flatten(n.attrs)
        begin     == start + 3 * w + 1 + Len(n.name)
        attrEnd   == begin + Len(attrBytes)
        kidBytes  == EncKids(n.kids, attrEnd, w)
        termBytes == IF n.term THEN Zeros(3 * w + 1) ELSE <<>>
        end       == attrEnd + Len(kidBytes) + Len(termBytes)
    IN  LE(end + n.dEnd, w) \o LE(Len(n.attrs) + n.dNum, w)
           \o LE(Len(attrBytes) + n.dLen, w) \o <<Len(n.name)>> \o n.name
           \o attrBytes \o kidBytes \o termBytes
EncKids(kids, start, w) ==
    IF kids = <<>> THEN <<>>
    ELSE LET first == EncNode(Head(kids), start, w)
         IN  first \o EncKids(Tail(kids), start + Len(first), w)

UNKNOWN1 == [i \in 1..16 |-> i]
UNKNOWN2 == [i \in 1..16 |-> 16 + i]

\* The padding that aligns the footer's version block to 16 bytes.
AlignPadding(pos) == (16 - (pos % 16)) % 16

\* The footer that starts at offset start: 16 unknown bytes, pad zero bytes,
\* 4 zero bytes, the version, 120 zero bytes and 16 unknown bytes.
EncFooter(version, pad) ==
    UNKNOWN1 \o Zeros(pad) \o Zeros(4) \o LE(version, 4) \o Zeros(120) \o UNKNOWN2

\* A whole stream: header, top-level nodes, the null header of the implicit
\* root and the footer.  pad < 0 asks for the aligning padding.
EncFbx(version, footerVersion, kids, pad) ==
    LET w    == FieldWidth(version)
        head == MAGIC \o UNKNOWN_BYTES \o LE(version, 4)
        body == EncKids(kids, Len(head), w) \o Zeros(3 * w + 1)
        at   == Len(head) + Len(body) + 16
    IN  head \o body
          \o EncFooter(footerVersion, IF pad < 0 THEN AlignPadding(at) ELSE pad)

Patch(s, i, v) == [s EXCEPT ![i] = v]
Truncate(s, n) == SubSeq(s, 1, n)


(***************************************************************************)
(* The input streams.  The first NumWellFormed streams are well formed     *)
(* (every header field is accurate); the others carry one defect each.     *)
(***************************************************************************)
NameA == <<65>>
NameB == <<66>>
NameC == <<67>>
NameD == <<68>>
NameE == <<69>>

LeafB == Node(NameB, <<>>, <<>>, FALSE)
LeafC == Node(NameC, <<>>, <<>>, FALSE)
LeafD == Node(NameD, <<AttrI32(7)>>, <<>>, FALSE)
LeafE == Node(NameE, <<>>, <<>>, FALSE)
FlatA == Node(NameA, <<AttrI32(1234), AttrString(<<97, 98, 99>>), AttrBool(84)>>,
              <<>>, FALSE)
NestB == Node(NameB, <<>>, <<LeafC>>, TRUE)
NestA == Node(NameA, <<AttrString(<<120, 121>>)>>, <<NestB, LeafD>>, TRUE)
ArrA  == Node(NameA, <<AttrArray(105, 2, 0, LE(5, 4) \o LE(6, 4)),
                       AttrBinary(<<1, 2, 3>>), AttrBool(1),
                       AttrArray(98, 2, 0, <<1, 0>>)>>, <<LeafB>>, TRUE)
TermA == Node(NameA, <<>>, <<>>, TRUE)

FlatKids == <<FlatA, LeafB>>
NestKids == <<NestA, LeafE>>

S_Empty  == EncFbx(7400, 7400, <<>>, -1)
S_Flat   == EncFbx(7400, 7400, FlatKids, -1)
S_Nest   == EncFbx(7400, 7400, NestKids, -1)
S_7500   == EncFbx(7500, 7500, <<Node(NameA, <<>>, <<LeafB>>, TRUE)>>, -1)
S_Array  == EncFbx(7400, 7400, <<ArrA>>, -1)
S_Term   == EncFbx(7400, 7400, <<TermA, LeafE>>, -1)
S_NoPad  == EncFbx(7400, 7400, <<LeafB>>, 0)
S_Magic2 == Patch(S_Flat, 22, 27)
S_Magic2b == Patch(S_Flat, 23, 1)
\* N with an i32, an f64 and the boolean 'T'; B with the booleans 'Y', 'F'
\* and 0x01 and an i16 after them.
NameN == <<78>>
PrimN == Node(NameN, <<AttrI32(1234), AttrF64(314), AttrBool(84)>>, <<>>, TRUE)
BoolB == Node(NameB, <<AttrBool(89), AttrBool(70), AttrBool(1), AttrI16(5)>>,
              <<>>, FALSE)
S_Bool   == EncFbx(7400, 7400, <<PrimN, BoolB>>, -1)

\* The smallest stream, with no padding in its footer; and the same stream
\* without the 4 zero bytes that precede the version of the footer.
S_Minimal == EncFbx(7400, 7400, <<>>, 0)
S_MinimalBare ==
    MAGIC \o UNKNOWN_BYTES \o LE(7400, 4) \o Zeros(13)
      \o UNKNOWN1 \o LE(7400, 4) \o Zeros(120) \o UNKNOWN2

\* S_Flat with 7500 as the version of the footer.
S_Mismatch == EncFbx(7400, 7500, FlatKids, -1)

\* S_Empty with each padding of 0 to 15 zero bytes that does not align the
\* footer's version block (8 aligns it).
PaddedStreams ==
    [i \in 1..15 |-> EncFbx(7400, 7400, <<>>, IF i <= 8 THEN i - 1 ELSE i)]

WellFormedStreams ==
    <<S_Empty, S_Flat, S_Nest, S_7500, S_Array, S_Term, S_NoPad, S_Magic2,
      S_Bool, S_Magic2b>> \o PaddedStreams

NumWellFormed == Len(WellFormedStreams)

\* Offsets (0-based) of parts of S_Nest, used to place defects.
NestHead == Len(MAGIC) + 2 + 4

DefectStreams ==
    << \* the magic is wrong
       Patch(S_Empty, 1, 0),
       \* the stream ends inside the header of C, with A and B open
       Truncate(S_Nest, NestHead + 14 + 7 + 14 + 5),
       \* the stream ends inside the attributes of A
       Truncate(S_Nest, NestHead + 14 + 3),
       \* B declares an end offset one byte too far
       EncFbx(7400, 7400,
              <<[NestA EXCEPT !.kids = <<[NestB EXCEPT !.dEnd = 1], LeafD>>],
                LeafE>>, -1),
       \* B declares an end offset before its own header
       EncFbx(7400, 7400,
              <<[NestA EXCEPT !.kids = <<[NestB EXCEPT !.dEnd = -40], LeafD>>],
                LeafE>>, -1),
       \* the name of C is not UTF-8
       EncFbx(7400, 7400,
              <<[NestA EXCEPT !.kids =
                    <<[NestB EXCEPT !.kids = <<Node(<<255>>, <<>>, <<>>, FALSE)>>],
                      LeafD>>],
                LeafE>>, -1),
       \* the second attribute of A has an unknown type code
       EncFbx(7400, 7400,
              <<Node(NameA, <<AttrI32(1234), <<90, 0>>, AttrBool(84)>>, <<>>, FALSE),
                LeafB>>, -1),
       \* A declares too few attribute bytes (its last attribute is left
       \* out), and too many (the whole of B is counted in)
       EncFbx(7400, 7400, <<[FlatA EXCEPT !.dLen = -2], LeafB>>, -1),
       EncFbx(7400, 7400, <<[FlatA EXCEPT !.dLen = 14], LeafB>>, -1),
       \* A declares one attribute more than it holds
       EncFbx(7400, 7400, <<[FlatA EXCEPT !.dNum = 1], LeafB>>, -1),
       \* the footer's version differs from the header's
       S_Mismatch,
       \* the footer's run of zero bytes is broken
       Patch(S_Empty, Len(S_Empty) - 16, 9),
       \* the stream ends inside the footer
       Truncate(S_Flat, Len(S_Flat) - 20),
       \* the array of A has an unknown encoding
       EncFbx(7400, 7400,
              <<Node(NameA, <<AttrArray(105, 2, 7, LE(5, 4) \o LE(6, 4))>>,
                     <<LeafB>>, TRUE)>>, -1),
       \* the footer lacks the 4 zero bytes before its version
       S_MinimalBare
    >>

Streams == WellFormedStreams \o DefectStreams

NumStreams == Len(Streams)

WellFormed(sid) == sid <= NumWellFormed

(***************************************************************************)
(* The state: a caller driving one parser over one stream.                 *)
(***************************************************************************)
VARIABLES
    stream,   \* the bytes of the input, fixed when the parser is built
    parser,   \* the RootParser and its source
    views,    \* the stack of live SubtreeParsers, innermost last
    attrs,    \* the Attributes of the StartNode returned last, while it lives
    value,    \* the attribute value returned last, while it lives
    last,     \* the last call: its name, its result and the parser before it
    hist,     \* what the calls so far returned
    loader    \* the loader built on the parser: its input and what it loaded

vars == <<stream, parser, views, attrs, value, last, hist, loader>>

\* No loader is built on the parser.
NoLoader == [stage |-> "none"]

(***************************************************************************)
(* Errors, warnings and results.                                           *)
(***************************************************************************)
Error(type, a, b, c) == [type |-> type, a |-> a, b |-> b, c |-> c]
NoError  == Error("None", 0, 0, 0)
Finished == Error("Finished", 0, 0, 0)
IoError  == Error("Io", 0, 0, 0)     \* io::ErrorKind::UnexpectedEof

Warning(type, a, b, c) == [type |-> type, a |-> a, b |-> b, c |-> c]

\* The outcome of an operation on the parser p: the parser afterwards, and
\* Ok(v) or Err(err).  A panic unwinds: p.panic names it and ok is FALSE.
Ok(p, v)     == [p |-> p, ok |-> TRUE, err |-> NoError, v |-> v]
Err(p, e)    == [p |-> p, ok |-> FALSE, err |-> e, v |-> 0]
Panic(p, why) ==
    [p |-> [p EXCEPT !.panic = why], ok |-> FALSE, err |-> Error("Panic", 0, 0, 0),
     v |-> 0]

(***************************************************************************)
(* The parser sources (reader.rs).  pos is the position the source         *)
(* reports, off the offset of the wrapped stream.                          *)
(***************************************************************************)
\* Read::read_exact of BasicSource and SeekableSource: n bytes or an
\* UnexpectedEof error that leaves the wrapped stream at its end and the
\* reported position as it was.
read_exact(p, n) ==
    IF n = 0 THEN Ok(p, <<>>)
    ELSE IF p.off + n <= Len(stream)
         THEN Ok([p EXCEPT !.pos = @ + n, !.off = @ + n],
                 SubSeq(stream, p.off + 1, p.off + n))
         ELSE Err([p EXCEPT !.off = Max(@, Len(stream))], IoError)

TEMP_BUF_LEN == 256

\* The discard loop of BasicSource::skip_to.
RECURSIVE basic_discard(_, _)
basic_discard(p, rest_len) ==
    IF rest_len > TEMP_BUF_LEN
    THEN Let(read_exact(p, TEMP_BUF_LEN), LAMBDA r :
             IF r.ok THEN basic_discard(r.p, rest_len - TEMP_BUF_LEN)
             ELSE Err(r.p, r.err))
    ELSE Let(read_exact(p, rest_len), LAMBDA r :
             IF r.ok THEN Ok(r.p, 0) ELSE Err(r.p, r.err))

\* BasicSource::skip_to
BasicSource_skip_to(p, dest_pos) ==
    IF dest_pos < p.pos THEN Panic(p, "skip_to rewinds")
    ELSE Let(basic_discard(p, dest_pos - p.pos), LAMBDA r :
             IF ~r.ok THEN r
             ELSE IF r.p.pos # dest_pos THEN Panic(r.p, "skip_to missed")
             ELSE r)

\* SeekableSource::seek that records the new position and leaves the
\* wrapped stream where it was.
SeekableSource_seek_unmoved(p, dest) == Ok([p EXCEPT !.pos = dest], dest)

\* SeekableSource::seek(SeekFrom::Start(dest)) on an in-memory or file
\* stream: a seek past the end is allowed.
SeekableSource_seek(p, dest) == Ok([p EXCEPT !.pos = dest, !.off = dest], dest)

\* SeekableSource::skip_to without its assertion on the direction.
SeekableSource_skip_to_rewinding(p, dest_pos) ==
    Let(SeekableSource_seek(p, dest_pos), LAMBDA r : Ok(r.p, 0))

\* SeekableSource::skip_to
SeekableSource_skip_to(p, dest_pos) ==
    IF dest_pos < p.pos THEN Panic(p, "skip_to rewinds")
    ELSE Let(SeekableSource_seek(p, dest_pos), LAMBDA r :
             IF r.p.pos # dest_pos THEN Panic(r.p, "skip_to missed")
             ELSE Ok(r.p, 0))

\* ParserSource::skip_to
skip_to(p, dest_pos) ==
    IF p.kind = "basic" THEN BasicSource_skip_to(p, dest_pos)
    ELSE SeekableSource_skip_to(p, dest_pos)

\* read_u8, read_u32, read_u64: read_exact, then from_le.
read_uint(p, w) ==
    Let(read_exact(p, w), LAMBDA r : IF r.ok THEN Ok(r.p, from_le(r.v)) ELSE r)

(***************************************************************************)
(* Events (event/mod.rs).                                                  *)
(***************************************************************************)
NoHeader == [end_offset |-> 0, num_attributes |-> 0, bytelen_attributes |-> 0,
             bytelen_name |-> 0]
NoFooter == [ok |-> FALSE, err |-> NoError, unknown1 |-> <<>>, version |-> 0,
             unknown2 |-> <<>>]

Event(type, version, header, footer) ==
    [type |-> type, version |-> version, header |-> header, footer |-> footer]
NoEvent          == Event("None", 0, NoHeader, NoFooter)
StartFbx(v)      == Event("StartFbx", v, NoHeader, NoFooter)
StartNode(h)     == Event("StartNode", 0, h, NoFooter)
EndNode          == Event("EndNode", 0, NoHeader, NoFooter)
EndFbx(footer)   == Event("EndFbx", 0, NoHeader, footer)

\* RootParser::warn that drops the warning.
warn_dropped(p, w) == p

\* RootParser::warn
warn(p, w) == [p EXCEPT !.warnings = Append(@, w)]

\* event::read_fbx_header
read_fbx_header(p) ==
    IF p.fbx_version # -1 THEN Panic(p, "header read twice")
    ELSE
    Let(read_exact(p, Len(MAGIC)), LAMBDA m :
    IF ~m.ok THEN Err(m.p, m.err)
    ELSE IF m.v # MAGIC THEN Err(m.p, Error("MagicNotDetected", m.v[1], 0, 0))
    ELSE
    Let(read_exact(m.p, Len(UNKNOWN_BYTES)), LAMBDA u :
    IF ~u.ok THEN Err(u.p, u.err)
    ELSE
    Let(read_uint(IF u.v # UNKNOWN_BYTES
                  THEN warn(u.p, Warning("UnexpectedBytesAfterMagic",
                                         u.v[1], u.v[2], 0))
                  ELSE u.p, 4), LAMBDA v :
    IF ~v.ok THEN Err(v.p, v.err) ELSE Ok(v.p, v.v))))

\* NodeHeader::is_node_end
is_node_end(h) ==
    /\ h.end_offset = 0
    /\ h.num_attributes = 0
    /\ h.bytelen_attributes = 0
    /\ h.bytelen_name = 0

\* NodeHeader::read_from_parser
NodeHeader_read_from_parser(p) ==
    IF p.fbx_version = -1 THEN Panic(p, "version unknown")
    ELSE
    Let(IF p.fbx_version < 7500 THEN 4 ELSE 8, LAMBDA w :
    Let(read_uint(p, w), LAMBDA eo :
    IF ~eo.ok THEN eo
    ELSE
    Let(read_uint(eo.p, w), LAMBDA na :
    IF ~na.ok THEN na
    ELSE
    Let(read_uint(na.p, w), LAMBDA bla :
    IF ~bla.ok THEN bla
    ELSE
    Let(read_uint(bla.p, 1), LAMBDA bn :
    IF ~bn.ok THEN bn
    ELSE Ok(bn.p, [end_offset |-> eo.v,
                   num_attributes |-> na.v,
                   bytelen_attributes |-> bla.v,
                   bytelen_name |-> bn.v]))))))

\* Whether bytes[j] exists and is a UTF-8 continuation byte.
Continues(bytes, j) == j <= Len(bytes) /\ bytes[j] >= 128 /\ bytes[j] <= 191

\* The length of the UTF-8 sequence that starts at bytes[i + 1], 0 if none.
SequenceWidth(bytes, i) ==
    Let(bytes[i + 1], LAMBDA b :
    IF b < 128 THEN 1
    ELSE IF b >= 194 /\ b <= 223 /\ Continues(bytes, i + 2) THEN 2
    ELSE IF b >= 224 /\ b <= 239 /\ Continues(bytes, i + 2)
            /\ Continues(bytes, i + 3)
            /\ (b # 224 \/ bytes[i + 2] >= 160)
            /\ (b # 237 \/ bytes[i + 2] <= 159) THEN 3
    ELSE IF b >= 240 /\ b <= 244 /\ Continues(bytes, i + 2)
            /\ Continues(bytes, i + 3) /\ Continues(bytes, i + 4)
            /\ (b # 240 \/ bytes[i + 2] >= 144)
            /\ (b # 244 \/ bytes[i + 2] <= 143) THEN 4
    ELSE 0)

\* The indices after i of the bytes that are not ASCII.
NonAscii(bytes, i) == {j \in (i + 1)..Len(bytes) : bytes[j] >= 128}

\* String::from_utf8: the length of the longest valid UTF-8 prefix, the
\* bytes up to i being valid.  A run of ASCII bytes is passed at once.
RECURSIVE valid_up_to(_, _)
valid_up_to(bytes, i) ==
    IF NonAscii(bytes, i) = {} THEN Len(bytes)
    ELSE Let((CHOOSE j \in NonAscii(bytes, i) :
                 \A k \in NonAscii(bytes, i) : j <= k) - 1, LAMBDA at :
         Let(SequenceWidth(bytes, at), LAMBDA width :
             IF width = 0 THEN at ELSE valid_up_to(bytes, at + width)))

BUF_LEN == 144

\* The scan of FbxFooter::read_from_parser that counts nothing.
partial_footer2_count_none(buf, count) == count

\* The scan of FbxFooter::read_from_parser for the last zero byte of buf.
RECURSIVE partial_footer2_count(_, _)
partial_footer2_count(buf, count) ==
    IF buf[BUF_LEN - count] # 0 /\ count <= 16
    THEN partial_footer2_count(buf, count + 1)
    ELSE count

\* FbxFooter::read_from_parser.  The value is the Result<FbxFooter>; the
\* parser returned carries the position and the warnings.
FbxFooter_read_from_parser(p) ==
    Let(read_exact(p, 16), LAMBDA u1 :
    IF ~u1.ok THEN Err(u1.p, u1.err)
    ELSE
    Let((16 - (u1.p.pos % 16)) % 16, LAMBDA expected_padding_len :
    Let(read_exact(u1.p, BUF_LEN), LAMBDA b :
    IF ~b.ok THEN Err(b.p, b.err)
    ELSE
    Let(partial_footer2_count(b.v, 0), LAMBDA partial_footer2_len :
    IF partial_footer2_len > 16 THEN Err(b.p, Error("BrokenFbxFooter", 0, 0, 0))
    ELSE
    Let(read_exact(b.p, 16 - partial_footer2_len), LAMBDA rest :
    IF ~rest.ok THEN Err(rest.p, rest.err)
    ELSE
    Let(SubSeq(b.v, BUF_LEN - partial_footer2_len + 1, BUF_LEN) \o rest.v,
        LAMBDA unknown2 :
    Let(IF 16 - partial_footer2_len = expected_padding_len
        THEN rest.p
        ELSE warn(rest.p, Warning("InvalidPaddingInFbxFooter",
                                  expected_padding_len,
                                  16 - partial_footer2_len, 0)), LAMBDA p2 :
    Let(from_le(SubSeq(b.v, 20 - partial_footer2_len + 1,
                       20 - partial_footer2_len + 4)),
        LAMBDA footer_fbx_version :
    IF p2.fbx_version = -1 THEN Panic(p2, "version unknown")
    ELSE IF p2.fbx_version # footer_fbx_version
    THEN Err(p2, Error("HeaderFooterVersionMismatch",
                       p2.fbx_version, footer_fbx_version, 0))
    ELSE Ok(p2, [ok |-> TRUE, err |-> NoError, unknown1 |-> u1.v,
                 version |-> footer_fbx_version, unknown2 |-> unknown2])))))))))

(***************************************************************************)
(* The root parser (mod.rs).                                               *)
(***************************************************************************)
OpenNode(begin, end, attributes_end) ==
    [begin |-> begin, end |-> end, attributes_end |-> attributes_end]

None == [some |-> FALSE, v |-> <<>>]
Some(v) == [some |-> TRUE, v |-> v]

\* RootParser::new and RootParser::from_seekable
RootParser(sid, kind) ==
    [sid |-> sid, kind |-> kind, pos |-> 0, off |-> 0,
     state |-> "Header", err |-> NoError, warnings |-> <<>>,
     fbx_version |-> -1, open_nodes |-> <<>>, recent_node_name |-> None,
     panic |-> "", build |-> "release"]

\* The same parser in a build that checks arithmetic overflow ("debug") or
\* lets it wrap ("release").
Built(p, build) == [p EXCEPT !.build = build]

\* RootParser::num_open_nodes
num_open_nodes(p) == Len(p.open_nodes)

Last(s) == s[Len(s)]
Pop(s) == SubSeq(s, 1, Len(s) - 1)

\* RootParser::set_finish
set_finish(p) == [p EXCEPT !.state = "Err", !.err = Finished]

\* RootParser::set_error
set_error(p, e) == [p EXCEPT !.state = "Err", !.err = e]

\* RootParser::read_fbx_header
RootParser_read_fbx_header(p) ==
    Let(read_fbx_header(p), LAMBDA h :
    IF ~h.ok THEN h
    ELSE Ok([h.p EXCEPT !.fbx_version = h.v, !.state = "NodeEnded"],
            StartFbx(h.v)))

\* RootParser::read_fbx_footer without set_finish.
read_fbx_footer_unfinished(p) == FbxFooter_read_from_parser(p)

\* RootParser::read_fbx_footer
read_fbx_footer(p) == FbxFooter_read_from_parser(set_finish(p))

\* RootParser::skip_attributes that skips nothing.
skip_attributes_nothing(p) ==
    IF p.open_nodes = <<>> THEN Panic(p, "skip_attributes: no nodes are open")
    ELSE Ok(p, 0)

\* RootParser::skip_attributes
skip_attributes(p) ==
    IF p.open_nodes = <<>> THEN Panic(p, "skip_attributes: no nodes are open")
    ELSE skip_to(p, Last(p.open_nodes).attributes_end)

\* The null-header branch without the comparison of the position with the
\* end offset of the node it closes.
read_node_end_unchecked(q) ==
    IF q.open_nodes # <<>>
    THEN Ok([q EXCEPT !.open_nodes = Pop(@), !.state = "NodeEnded"], EndNode)
    ELSE IF q.state # "NodeEnded"
         THEN Panic(q, "end of implicit root in unexpected state")
         ELSE Let(read_fbx_footer(q), LAMBDA f :
                  IF f.p.panic # "" THEN f
                  ELSE Ok(f.p, EndFbx(IF f.ok THEN f.v
                                      ELSE [NoFooter EXCEPT !.err = f.err])))

\* The null-header branch closing two nodes where two are open.
read_node_end_twice(q) ==
    IF q.open_nodes # <<>>
    THEN Let(Last(q.open_nodes), LAMBDA last_node :
         Let([q EXCEPT !.open_nodes = SubSeq(@, 1, Max(0, Len(@) - 2))],
             LAMBDA popped :
         IF popped.pos # last_node.end
         THEN Err(popped, Error("WrongNodeEndOffset", last_node.begin,
                                last_node.end, popped.pos))
         ELSE Ok([popped EXCEPT !.state = "NodeEnded"], EndNode)))
    ELSE IF q.state # "NodeEnded"
         THEN Panic(q, "end of implicit root in unexpected state")
         ELSE Let(read_fbx_footer(q), LAMBDA f :
                  IF f.p.panic # "" THEN f
                  ELSE Ok(f.p, EndFbx(IF f.ok THEN f.v
                                      ELSE [NoFooter EXCEPT !.err = f.err])))

\* The null-header branch of RootParser::read_node_event, q the parser after
\* the header was read.
read_node_end(q) ==
    IF q.open_nodes # <<>>
    THEN Let(Last(q.open_nodes), LAMBDA last_node :
         Let([q EXCEPT !.open_nodes = Pop(@)], LAMBDA popped :
         IF popped.pos # last_node.end
         THEN Err(popped, Error("WrongNodeEndOffset", last_node.begin,
                                last_node.end, popped.pos))
         ELSE Ok([popped EXCEPT !.state = "NodeEnded"], EndNode)))
    ELSE IF q.state # "NodeEnded"
         THEN Panic(q, "end of implicit root in unexpected state")
         ELSE Let(read_fbx_footer(q), LAMBDA f :
                  IF f.p.panic # "" THEN f
                  ELSE Ok(f.p, EndFbx(IF f.ok THEN f.v
                                      ELSE [NoFooter EXCEPT !.err = f.err])))

\* Whether the u64 sum a + b exceeds 2^64 - 1 (a < 2^63; b >= 2^63 is held
\* as b - 2^64).
add_overflows(a, b) == b < 0 /\ a + b >= 0

\* The other branch of RootParser::read_node_event: a node starts.
read_node_start(q, header) ==
    Let(read_exact([q EXCEPT !.recent_node_name = None], header.bytelen_name),
        LAMBDA name :
    IF ~name.ok THEN Err(name.p, name.err)
    ELSE
    Let(valid_up_to(name.v, 0), LAMBDA valid :
    IF valid # Len(name.v)
    THEN Err(name.p, Error("NodeNameInvalidUtf8", valid, 0, 0))
    ELSE IF add_overflows(name.p.pos, header.bytelen_attributes)
            /\ name.p.build = "debug"
    THEN Panic(name.p, "attempt to add with overflow")
    ELSE Ok([name.p EXCEPT
               !.recent_node_name = Some(name.v),
               !.open_nodes = Append(@,
                   OpenNode(name.p.pos, header.end_offset,
                            name.p.pos + header.bytelen_attributes)),
               !.state = "NodeStarted"],
            StartNode(header))))

\* RootParser::read_node_event
read_node_event(p) ==
    Let(NodeHeader_read_from_parser(p), LAMBDA h :
    IF ~h.ok THEN h
    ELSE IF is_node_end(h.v) THEN read_node_end(h.p)
    ELSE read_node_start(h.p, h.v))

\* RootParser::read_after_node_start whose synthesised EndNode pops nothing.
read_after_node_start_unpopped(p) ==
    Let(skip_attributes(p), LAMBDA s :
    IF ~s.ok THEN s
    ELSE IF s.p.open_nodes # <<>> /\ s.p.pos = Last(s.p.open_nodes).end
    THEN Ok([s.p EXCEPT !.state = "NodeEnded"], EndNode)
    ELSE read_node_event(s.p))

\* RootParser::read_after_node_start
read_after_node_start(p) ==
    Let(skip_attributes(p), LAMBDA s :
    IF ~s.ok THEN s
    ELSE IF s.p.open_nodes # <<>> /\ s.p.pos = Last(s.p.open_nodes).end
    THEN Ok([s.p EXCEPT !.state = "NodeEnded", !.open_nodes = Pop(@)], EndNode)
    ELSE read_node_event(s.p))

\* RootParser::read_after_node_end
read_after_node_end(p) == read_node_event(p)

\* <RootParser as Parser>::next_event
next_event(p) ==
    IF p.state = "Err" THEN Err(p, p.err)
    ELSE Let(IF p.state = "Header" THEN RootParser_read_fbx_header(p)
             ELSE IF p.state = "NodeStarted" THEN read_after_node_start(p)
             ELSE read_after_node_end(p), LAMBDA builder :
             IF builder.p.panic # "" THEN builder
             ELSE IF ~builder.ok
             THEN Err(set_error(builder.p, builder.err), builder.err)
             ELSE builder)

\* skip_current_node that pops the node and leaves the source where it is.
skip_current_node_unmoved(p) ==
    IF p.open_nodes # <<>>
    THEN Ok([p EXCEPT !.open_nodes = Pop(@), !.state = "NodeEnded",
                      !.err = NoError], TRUE)
    ELSE Ok(p, FALSE)

\* <RootParser as Parser>::skip_current_node
skip_current_node(p) ==
    IF p.open_nodes # <<>>
    THEN Let(skip_to([p EXCEPT !.open_nodes = Pop(@)], Last(p.open_nodes).end),
             LAMBDA s :
             IF ~s.ok THEN s
             ELSE Ok([s.p EXCEPT !.state = "NodeEnded", !.err = NoError], TRUE))
    ELSE Ok(p, FALSE)

(***************************************************************************)
(* The subtree parser (mod.rs).  A view is its initial_depth; the root     *)
(* parser it borrows is the parser p.                                      *)
(***************************************************************************)
\* SubtreeParser::is_finished
is_finished(p, initial_depth) ==
    IF p.state = "Err" THEN Err(p, p.err)
    ELSE Ok(p, num_open_nodes(p) < initial_depth)

\* SubtreeParser::ensure_not_finished that never finds the subtree finished.
ensure_not_finished_never(p, initial_depth) ==
    Let(is_finished(p, initial_depth), LAMBDA f :
    IF ~f.ok THEN f ELSE Ok(p, FALSE))

\* SubtreeParser::ensure_not_finished
ensure_not_finished(p, initial_depth) ==
    Let(is_finished(p, initial_depth), LAMBDA f :
    IF ~f.ok THEN f
    ELSE IF f.v THEN Err(p, Finished)
    ELSE Ok(p, FALSE))

\* SubtreeParser::skip_to_end that closes the topmost open node only.
skip_to_end_untruncated(p, initial_depth) ==
    Let(is_finished(p, initial_depth), LAMBDA f :
    IF ~f.ok THEN f
    ELSE IF f.v THEN Ok(p, TRUE)
    ELSE
    IF p.open_nodes # <<>>
    THEN Let(skip_to([p EXCEPT !.open_nodes = Pop(@)],
                     Last(p.open_nodes).end), LAMBDA s :
             IF ~s.ok THEN s
             ELSE Ok([s.p EXCEPT !.state = "NodeEnded", !.err = NoError], TRUE))
    ELSE Err(set_finish(p), Finished))

\* SubtreeParser::skip_to_end
skip_to_end(p, initial_depth) ==
    Let(is_finished(p, initial_depth), LAMBDA f :
    IF ~f.ok THEN f
    ELSE IF f.v THEN Ok(p, TRUE)
    ELSE
    Let([p EXCEPT !.open_nodes = SubSeq(@, 1, Min(Len(@), initial_depth))],
        LAMBDA truncated :
    IF truncated.open_nodes # <<>>
    THEN Let(skip_to([truncated EXCEPT !.open_nodes = Pop(@)],
                     Last(truncated.open_nodes).end), LAMBDA s :
             IF ~s.ok THEN s
             ELSE Ok([s.p EXCEPT !.state = "NodeEnded", !.err = NoError], TRUE))
    ELSE Err(set_finish(truncated), Finished)))

\* <SubtreeParser as Parser>::next_event
SubtreeParser_next_event(p, initial_depth) ==
    Let(ensure_not_finished(p, initial_depth), LAMBDA f :
    IF ~f.ok THEN f ELSE next_event(p))

\* <SubtreeParser as Parser>::skip_current_node
SubtreeParser_skip_current_node(p, initial_depth) ==
    Let(ensure_not_finished(p, initial_depth), LAMBDA f :
    IF ~f.ok THEN f ELSE skip_current_node(p))

\* SubtreeParser::new
SubtreeParser_new(p) == num_open_nodes(p)

(***************************************************************************)
(* The attribute iterator (event/attribute).                               *)
(***************************************************************************)
\* No value is being read.
NoValue == [cls |-> "none", code |-> 0, val |-> 0, begin |-> 0, end |-> 0,
            limit |-> 0, num_elements |-> 0, rest_elements |-> 0,
            start |-> 0]

\* attribute::new_attributes
new_attributes(header) ==
    [live |-> TRUE, num_attributes |-> header.num_attributes,
     rest_attributes |-> header.num_attributes, prev_attr_end |-> -1]

NoAttributes ==
    [live |-> FALSE, num_attributes |-> 0, rest_attributes |-> 0,
     prev_attr_end |-> -1]

\* The width in bytes of a primitive value, 0 for another type code.
PrimitiveWidth(type_code) ==
    CASE type_code = 67 -> 1
      [] type_code = 89 -> 2
      [] type_code = 73 -> 4
      [] type_code = 76 -> 8
      [] type_code = 70 -> 4
      [] type_code = 68 -> 8
      [] OTHER -> 0

\* The outcome of next_attribute: the parser, the iterator, and Ok(value)
\* (cls "none" for Ok(None)) or Err(err).
AttrOk(p, a, v)  == [p |-> p, a |-> a, ok |-> TRUE, err |-> NoError, v |-> v]
AttrErr(p, a, e) == [p |-> p, a |-> a, ok |-> FALSE, err |-> e, v |-> NoValue]

\* read_special_attribute that records no end of the value.
read_special_attribute_unrecorded(p, a, type_code, start) ==
    Let(read_uint(p, 4), LAMBDA n :
    IF ~n.ok THEN AttrErr(n.p, a, n.err)
    ELSE AttrOk(n.p, a,
                [NoValue EXCEPT !.cls = "special", !.code = type_code,
                                !.begin = n.p.pos,
                                !.end = n.p.pos + n.v, !.start = start]))

\* special::read_special_attribute
read_special_attribute(p, a, type_code, start) ==
    Let(read_uint(p, 4), LAMBDA n :
    IF ~n.ok THEN AttrErr(n.p, a, n.err)
    ELSE AttrOk(n.p, [a EXCEPT !.prev_attr_end = n.p.pos + n.v],
                [NoValue EXCEPT !.cls = "special", !.code = type_code,
                                !.begin = n.p.pos,
                                !.end = n.p.pos + n.v, !.start = start]))

\* array::read_array_attribute with ArrayAttributeHeader::read_from_parser
\* and ArrayDecoder::new
read_array_attribute(p, a, type_code, start) ==
    Let(read_uint(p, 4), LAMBDA num :
    IF ~num.ok THEN AttrErr(num.p, a, num.err)
    ELSE
    Let(read_uint(num.p, 4), LAMBDA enc :
    IF ~enc.ok THEN AttrErr(enc.p, a, enc.err)
    ELSE
    Let(read_uint(enc.p, 4), LAMBDA len :
    IF ~len.ok THEN AttrErr(len.p, a, len.err)
    ELSE IF enc.v \notin {0, 1}
    THEN AttrErr(len.p, a, Error("UnknownArrayAttributeEncoding", enc.v, 0, 0))
    ELSE AttrOk(len.p, [a EXCEPT !.prev_attr_end = len.p.pos + len.v],
                [NoValue EXCEPT !.cls = "array", !.code = type_code,
                                !.val = enc.v,
                                !.begin = len.p.pos,
                                !.end = len.p.pos + len.v,
                                !.limit = len.v,
                                !.num_elements = num.v,
                                !.rest_elements = num.v,
                                !.start = start]))))

\* The primitive arms that record no warning.
read_primitive_attribute_silent(t, a1, type_code) ==
    Let(read_uint(t, PrimitiveWidth(type_code)), LAMBDA raw :
    IF ~raw.ok THEN AttrErr(raw.p, a1, raw.err)
    ELSE AttrOk(raw.p, a1,
                [NoValue EXCEPT !.cls = "primitive", !.code = type_code,
                                !.val = IF type_code = 67 THEN raw.v % 2
                                        ELSE raw.v,
                                !.start = t.pos - 1]))

\* The primitive arms of Attributes::next_attribute, t the parser after the
\* type code was read and a1 the iterator.
read_primitive_attribute(t, a1, type_code) ==
    Let(read_uint(t, PrimitiveWidth(type_code)), LAMBDA raw :
    IF ~raw.ok THEN AttrErr(raw.p, a1, raw.err)
    ELSE AttrOk(IF type_code = 67 /\ raw.v # 84 /\ raw.v # 89
                THEN warn(raw.p, Warning("InvalidBooleanAttributeValue",
                                         raw.v, raw.v % 2, t.pos))
                ELSE raw.p,
                a1,
                [NoValue EXCEPT !.cls = "primitive", !.code = type_code,
                                !.val = IF type_code = 67 THEN raw.v % 2
                                        ELSE raw.v,
                                !.start = t.pos - 1]))

\* Attributes::next_attribute
next_attribute(p, a) ==
    IF a.rest_attributes = 0 THEN AttrOk(p, a, NoValue)
    ELSE
    Let(IF a.prev_attr_end # -1 THEN skip_to(p, a.prev_attr_end) ELSE Ok(p, 0),
        LAMBDA s :
    IF ~s.ok THEN AttrErr(s.p, a, s.err)
    ELSE
    Let([a EXCEPT !.prev_attr_end = -1, !.rest_attributes = @ - 1], LAMBDA a1 :
    Let(read_uint(s.p, 1), LAMBDA t :
    IF ~t.ok THEN AttrErr(t.p, a1, t.err)
    ELSE IF PrimitiveWidth(t.v) > 0
    THEN read_primitive_attribute(t.p, a1, t.v)
    ELSE IF t.v \in {82, 83}
    THEN read_special_attribute(t.p, a1, t.v, t.p.pos - 1)
    ELSE IF t.v \in {98, 105, 108, 102, 100}
    THEN read_array_attribute(t.p, a1, t.v, t.p.pos - 1)
    ELSE AttrErr(t.p, a1,
                 Error("InvalidNodeAttributeTypeCode", t.v, t.p.pos, 0)))))

\* The bytes the wrapped stream still holds.
Available(p) == Max(0, Len(stream) - p.off)

\* <LimitedSeekReader as Read>::read of a buffer of n bytes, through the
\* reader SpecialAttribute::reader builds at the current position.
LimitedSeekReader_read(p, v, n) ==
    IF ~(v.begin <= v.end /\ v.begin <= p.pos /\ p.pos <= v.end)
    THEN Panic(p, "LimitedSeekReader::new")
    ELSE Let(Min(Min(n, v.end - p.pos), Available(p)), LAMBDA size :
             Ok([p EXCEPT !.pos = @ + size, !.off = @ + size], size))

\* The offset <LimitedSeekReader as Seek>::seek hands to the source.
SeekTarget(p, v, whence, val) ==
    CASE whence = "Start" -> v.begin + Min(v.end - v.begin, val)
      [] whence = "Current" ->
            p.off + (IF val < 0 THEN Max(-(p.pos - v.begin), val)
                     ELSE Min(v.end - p.pos, val))
      [] OTHER -> v.end + Max(-(v.end - v.begin), Min(0, val))

\* <LimitedSeekReader as Seek>::seek, over a seekable source.  whence is
\* "Start", "Current" or "End".
LimitedSeekReader_seek(p, v, whence, val) ==
    IF ~(v.begin <= v.end /\ v.begin <= p.pos /\ p.pos <= v.end)
    THEN Panic(p, "LimitedSeekReader::new")
    ELSE Let(SeekTarget(p, v, whence, val), LAMBDA target :
             IF target < 0 THEN Err(p, Error("Io", 1, 0, 0))
             ELSE Ok([p EXCEPT !.pos = target, !.off = target],
                     target - v.begin))

\* A read of n bytes through ArrayDecoder::Raw, an io::Take over the source.
ArrayDecoder_read(p, v, n) ==
    Let(Min(Min(n, v.limit), Available(p)), LAMBDA size :
        [p |-> [p EXCEPT !.pos = @ + size, !.off = @ + size],
         v |-> [v EXCEPT !.limit = @ - size],
         ok |-> size = n,
         err |-> IF size = n THEN NoError ELSE IoError])

\* The width in bytes of an element of an array attribute.
ElementWidth(type_code) ==
    CASE type_code = 98 -> 1
      [] type_code = 105 -> 4
      [] type_code = 102 -> 4
      [] OTHER -> 8

\* ArrayAttributeReader::num_elements
ArrayAttributeReader_num_elements(v) == v.num_elements

\* ArrayAttributeReader::rest_elements that returns the field of its name.
rest_elements_field(v) == v.rest_elements

\* ArrayAttributeReader::rest_elements
ArrayAttributeReader_rest_elements(v) == v.num_elements

\* The loop of ArrayAttributeReader<bool>::read_into_buf over size slots.
RECURSIVE read_bools(_, _, _)
read_bools(p, v, size) ==
    IF size = 0 THEN [p |-> p, v |-> v, ok |-> TRUE, err |-> NoError]
    ELSE Let(ArrayDecoder_read(p, [v EXCEPT !.rest_elements = @ - 1], 1),
             LAMBDA r : IF ~r.ok THEN r ELSE read_bools(r.p, r.v, size - 1))

\* ArrayAttributeReader::read_into_buf that fills every slot of the buffer.
read_into_buf_unclamped(p, v, len) ==
    Let(IF v.code = 98 THEN read_bools(p, v, len)
        ELSE ArrayDecoder_read(p, [v EXCEPT !.rest_elements = @ - len],
                               len * ElementWidth(v.code)), LAMBDA r :
        [p |-> r.p, v |-> r.v, ok |-> r.ok, err |-> r.err,
         size |-> IF r.ok THEN len ELSE 0])

\* ArrayAttributeReader::read_into_buf with a buffer of len slots: the loop
\* over the slots for bool, one read of the whole slice for the others.
read_into_buf(p, v, len) ==
    Let(Min(len, v.rest_elements), LAMBDA size :
    Let(IF v.code = 98 THEN read_bools(p, v, size)
        ELSE ArrayDecoder_read(p, [v EXCEPT !.rest_elements = @ - size],
                               size * ElementWidth(v.code)), LAMBDA r :
        [p |-> r.p, v |-> r.v, ok |-> r.ok, err |-> r.err,
         size |-> IF r.ok THEN size ELSE 0]))

(***************************************************************************)
(* The state machine: a caller driving one parser over one stream.         *)
(***************************************************************************)
\* A view: the depth it saved, whether a view was made from it, and (for the
\* properties only) the node that was open at that depth when it was made.
View(initial_depth) ==
    [initial_depth |-> initial_depth, derived |-> FALSE,
     opened |-> OpenNode(0, 0, 0)]
NoView == View(-1)

\* A call: its name, the parser, the history and the attribute value before
\* it, the view it went through, and what it returned.
Called(op, pre, view, ok, err, ev, ret) ==
    [op |-> op, pre |-> pre, before |-> hist, fetched |-> value, view |-> view,
     ok |-> ok, err |-> err, ev |-> ev, ret |-> ret, arg |-> 0, size |-> 0]

NoHist ==
    [nStartFbx |-> 0, nStartNode |-> 0, nEndNode |-> 0, nEndFbx |-> 0,
     first |-> "None", pureNext |-> TRUE, fatal |-> NoError,
     footer |-> NoFooter]

\* Errors next_event latches: everything it returns but the Finished sentinel.
IsFatal(e) == e.type \notin {"None", "Finished", "Panic"}

Init ==
    /\ \E sid \in 1..NumStreams, kind \in {"basic", "seekable"} :
          /\ stream = Streams[sid]
          /\ parser = RootParser(sid, kind)
    /\ views = <<>>
    /\ attrs = NoAttributes
    /\ value = NoValue
    /\ hist = NoHist
    /\ loader = NoLoader
    /\ last = [op |-> "new", pre |-> parser, before |-> NoHist,
               fetched |-> NoValue, view |-> NoView,
               ok |-> TRUE, err |-> NoError, ev |-> NoEvent, ret |-> FALSE,
               arg |-> 0, size |-> 0]

Alive == parser.panic = ""

\* The event of the result r of a next_event call.
EventOf(r) == IF r.ok THEN r.v ELSE NoEvent

\* The bookkeeping of a next_event call that returned r.
Returned(op, view, r) ==
    /\ parser' = r.p
    /\ attrs' = IF r.ok /\ r.v.type = "StartNode" THEN new_attributes(r.v.header)
                ELSE NoAttributes
    /\ value' = NoValue
    /\ last' = Called(op, parser, view, r.ok, r.err, EventOf(r), FALSE)
    /\ hist' = [hist EXCEPT
                  !.nStartFbx  = @ + (IF EventOf(r).type = "StartFbx" THEN 1 ELSE 0),
                  !.nStartNode = @ + (IF EventOf(r).type = "StartNode" THEN 1 ELSE 0),
                  !.nEndNode   = @ + (IF EventOf(r).type = "EndNode" THEN 1 ELSE 0),
                  !.nEndFbx    = @ + (IF EventOf(r).type = "EndFbx" THEN 1 ELSE 0),
                  !.first      = IF @ = "None" THEN EventOf(r).type ELSE @,
                  !.pureNext   = @ /\ op = "next_event",
                  !.fatal      = IF @ = NoError /\ ~r.ok /\ IsFatal(r.err)
                                 THEN r.err ELSE @,
                  !.footer     = IF EventOf(r).type = "EndFbx"
                                 THEN EventOf(r).footer ELSE @]

\* The bookkeeping of a skip call that returned r.
Skipped(op, view, r) ==
    /\ parser' = r.p
    /\ attrs' = NoAttributes
    /\ value' = NoValue
    /\ last' = Called(op, parser, view, r.ok, r.err, NoEvent, r.ok /\ r.v = TRUE)
    /\ hist' = [hist EXCEPT !.pureNext = FALSE]

\* parser.next_event()
NextEvent ==
    /\ Alive /\ views = <<>>
    /\ \E r \in {next_event(parser)} : Returned("next_event", NoView, r)
    /\ UNCHANGED views

\* parser.skip_current_node()
SkipCurrentNode ==
    /\ Alive /\ views = <<>>
    /\ \E r \in {skip_current_node(parser)} :
          Skipped("skip_current_node", NoView, r)
    /\ UNCHANGED views

\* parser.subtree_parser(), on the root parser or on the innermost view
NewView ==
    /\ Alive /\ Len(views) < MaxViews
    /\ views' = Append([i \in 1..Len(views) |-> [views[i] EXCEPT !.derived = TRUE]],
                       [View(SubtreeParser_new(parser)) EXCEPT
                          !.opened = IF parser.open_nodes = <<>> THEN @
                                     ELSE Last(parser.open_nodes)])
    /\ attrs' = NoAttributes
    /\ value' = NoValue
    /\ last' = Called("subtree_parser", parser, NoView, TRUE, NoError, NoEvent,
                      FALSE)
    /\ hist' = [hist EXCEPT !.pureNext = FALSE]
    /\ UNCHANGED parser

\* the innermost view goes out of scope
DropView ==
    /\ Alive /\ views # <<>>
    /\ views' = Pop(views)
    /\ attrs' = NoAttributes
    /\ value' = NoValue
    /\ last' = Called("drop", parser, Last(views), TRUE, NoError, NoEvent, FALSE)
    /\ UNCHANGED <<parser, hist>>

\* view.next_event()
ViewNextEvent ==
    /\ Alive /\ views # <<>>
    /\ \E r \in {SubtreeParser_next_event(parser, Last(views).initial_depth)} :
          Returned("view.next_event", Last(views), r)
    /\ UNCHANGED views

\* view.skip_current_node()
ViewSkipCurrentNode ==
    /\ Alive /\ views # <<>>
    /\ \E r \in {SubtreeParser_skip_current_node(parser,
                                                Last(views).initial_depth)} :
          Skipped("view.skip_current_node", Last(views), r)
    /\ UNCHANGED views

\* view.skip_to_end(), which consumes the view
ViewSkipToEnd ==
    /\ Alive /\ views # <<>>
    /\ \E r \in {skip_to_end(parser, Last(views).initial_depth)} :
          Skipped("view.skip_to_end", Last(views), r)
    /\ views' = Pop(views)

\* attributes.next_attribute()
NextAttribute ==
    /\ Alive /\ attrs.live
    /\ attrs.num_attributes - attrs.rest_attributes < MaxFetch
    /\ \E r \in {next_attribute(parser, attrs)} :
          /\ parser' = r.p
          /\ attrs' = r.a
          /\ value' = r.v
          /\ last' = Called("next_attribute", parser, NoView, r.ok, r.err,
                            NoEvent, r.ok /\ r.v.cls # "none")
    /\ UNCHANGED <<views, hist>>

\* a read of up to n bytes through special_attribute.reader()
SpecialRead ==
    /\ Alive /\ value.cls = "special"
    /\ \E n \in 1..MaxRead :
          \E r \in {LimitedSeekReader_read(parser, value, n)} :
             /\ parser' = r.p
             /\ last' = Called("reader.read", parser, NoView, r.ok, r.err,
                               NoEvent, FALSE)
    /\ UNCHANGED <<views, attrs, value, hist>>

\* a seek through special_attribute.reader(), which a seekable source allows
SpecialSeek ==
    /\ Alive /\ value.cls = "special" /\ parser.kind = "seekable"
    /\ \E whence \in {"Start", "Current", "End"}, val \in -MaxRead..MaxRead :
          /\ whence = "Start" => val >= 0
          /\ \E r \in {LimitedSeekReader_seek(parser, value, whence, val)} :
                /\ parser' = r.p
                /\ last' = Called("reader.seek", parser, NoView, r.ok, r.err,
                                  NoEvent, FALSE)
    /\ UNCHANGED <<views, attrs, value, hist>>

\* array_reader.next() on a raw array
ArrayNext ==
    /\ Alive /\ value.cls = "array" /\ value.val = 0 /\ value.rest_elements > 0
    /\ \E r \in {ArrayDecoder_read(parser, value, ElementWidth(value.code))} :
          /\ parser' = r.p
          /\ value' = [r.v EXCEPT !.rest_elements = @ - 1]
          /\ last' = Called("array.next", parser, NoView, r.ok, r.err, NoEvent,
                            FALSE)
    /\ UNCHANGED <<views, attrs, hist>>

\* array_reader.read_into_buf(buf) on a raw array, with a buffer of len slots
ArrayReadIntoBuf ==
    /\ Alive /\ value.cls = "array" /\ value.val = 0
    /\ \E len \in 0..MaxBuf :
          \E r \in {read_into_buf(parser, value, len)} :
             /\ parser' = r.p
             /\ value' = r.v
             /\ last' = [Called("array.read_into_buf", parser, NoView, r.ok,
                                r.err, NoEvent, FALSE)
                           EXCEPT !.arg = len, !.size = r.size]
    /\ UNCHANGED <<views, attrs, hist>>

Call ==
    \/ NextEvent
    \/ SkipCurrentNode
    \/ NewView
    \/ DropView
    \/ ViewNextEvent
    \/ ViewSkipCurrentNode
    \/ ViewSkipToEnd
    \/ NextAttribute
    \/ SpecialRead
    \/ SpecialSeek
    \/ ArrayNext
    \/ ArrayReadIntoBuf

Next == Call /\ UNCHANGED <<stream, loader>>

Spec == Init /\ [][Next]_vars

(***************************************************************************)
(* What the claims speak of.                                               *)
(***************************************************************************)
\* The calls that are next_event, on the root parser or through a view.
NextEventOps == {"next_event", "view.next_event"}

\* The length in bytes of a node header for the version of p.
HeaderLen(p) == IF p.fbx_version < 7500 THEN 13 ELSE 25

\* The most events one parse is followed for.
MaxEvents == 16

\* What a caller observes of a next_event call that returned r: the result,
\* the name of a node that starts, and the position.
Observed(r) ==
    [ok |-> r.ok, err |-> r.err, ev |-> EventOf(r),
     name |-> IF r.ok /\ r.v.type = "StartNode" THEN r.p.recent_node_name
              ELSE None,
     pos |-> r.p.pos]

\* What next_event returns from p on, call after call, up to the first error.
RECURSIVE Trace(_, _)
Trace(p, fuel) ==
    IF fuel = 0 THEN <<>>
    ELSE Let(next_event(p), LAMBDA r :
             IF r.ok THEN <<Observed(r)>> \o Trace(r.p, fuel - 1)
             ELSE <<Observed(r)>>)

\* The parser after next_event was called from p on until fewer than depth
\* nodes are open, that is until the EndNode of the node open at depth.
RECURSIVE ConsumeSubtree(_, _, _)
ConsumeSubtree(p, depth, fuel) ==
    IF Len(p.open_nodes) < depth \/ fuel = 0 THEN p
    ELSE Let(next_event(p), LAMBDA r :
             IF r.ok THEN ConsumeSubtree(r.p, depth, fuel - 1) ELSE r.p)

\* C1: on a well-formed stream, after skip_current_node closed the topmost
\* open node of the root parser, next_event called repeatedly returns the
\* same events at the same positions as it does after next_event was called
\* from the state before the skip until the EndNode of that node.
C1_SkipSafety ==
    (/\ last.op = "skip_current_node"
     /\ WellFormed(parser.sid)
     /\ last.pre.state # "Err"
     /\ last.pre.open_nodes # <<>>)
    => /\ last.ok /\ last.ret
       /\ Trace(parser, MaxEvents)
            = Trace(ConsumeSubtree(last.pre, Len(last.pre.open_nodes), MaxEvents),
                    MaxEvents)

\* C1 witness: a node with children not yet read was skipped from inside its
\* attributes.
C1_Witness ==
    /\ last.op = "skip_current_node" /\ last.ok /\ last.ret
    /\ WellFormed(parser.sid)
    /\ last.pre.state = "NodeStarted"
    /\ last.pre.pos > Last(last.pre.open_nodes).begin
    /\ last.pre.pos < Last(last.pre.open_nodes).attributes_end
    /\ Last(last.pre.open_nodes).attributes_end + HeaderLen(parser)
         < Last(last.pre.open_nodes).end

\* C2 as stated: once next_event returned a fatal error, every later
\* next_event returns that error and moves neither the position nor the
\* wrapped stream.
C2_LatchedForEveryLaterCall ==
    (last.op = "next_event" /\ last.before.fatal # NoError)
    => /\ ~last.ok
       /\ last.err = last.before.fatal
       /\ parser.pos = last.pre.pos
       /\ parser.off = last.pre.off

\* C3 as stated: with a fatal error latched, skip_current_node on the root
\* parser fails with that error and leaves the parser as it was.
C3_SkipFailsWhenLatched ==
    (/\ last.op = "skip_current_node"
     /\ last.pre.state = "Err"
     /\ IsFatal(last.pre.err))
    => /\ ~last.ok
       /\ last.err = last.pre.err
       /\ parser = last.pre

\* C4: a SubtreeParser created with d nodes open never brings the number of
\* open nodes below d - 1 by the calls made through it, skip_to_end included.
C4_SubtreeContainment ==
    /\ (views # <<>> /\ ~Last(views).derived)
       => num_open_nodes(parser) >= Last(views).initial_depth - 1
    /\ (last.op \in {"view.next_event", "view.skip_current_node",
                     "view.skip_to_end"} /\ ~last.view.derived)
       => num_open_nodes(parser) >= last.view.initial_depth - 1

\* C4 witness: a view created with two nodes open has closed its node and
\* refuses to go on.
C4_Witness ==
    /\ views # <<>> /\ ~Last(views).derived
    /\ Last(views).initial_depth = 2
    /\ num_open_nodes(last.pre) = 1
    /\ last.op \in {"view.next_event", "view.skip_current_node"}
    /\ ~last.ok /\ last.err = Finished

\* C5: when next_event returns EndNode, for a null header or synthesised,
\* the position is the end offset of the open node popped for it.
C5_EndOffsetExact ==
    (last.op \in NextEventOps /\ last.ev.type = "EndNode")
    => /\ last.pre.open_nodes # <<>>
       /\ parser.pos = Last(last.pre.open_nodes).end

\* C5 witness: an EndNode synthesised for a node that has no null
\* terminator.
C5_Witness ==
    /\ last.op \in NextEventOps /\ last.ev.type = "EndNode"
    /\ last.pre.state = "NodeStarted"
    /\ parser.pos = Last(last.pre.open_nodes).attributes_end

\* C6: a parse of any stream by next_event alone that reached EndFbx has
\* returned as many StartNode as EndNode events.
C6_NodeBalance ==
    (hist.pureNext /\ hist.nEndFbx > 0) => hist.nStartNode = hist.nEndNode

\* C6 witness: EndFbx after nested nodes.
C6_Witness ==
    /\ hist.pureNext /\ hist.nEndFbx > 0
    /\ hist.nStartNode >= 3

\* C7: the events of next_event alone are well nested: StartFbx comes first
\* and once, an EndNode closes the node opened last, so the EndNode events
\* never outnumber the StartNode events, and EndFbx comes with no node open.
C7_WellNested ==
    hist.pureNext
    => /\ hist.first \in {"None", "StartFbx"}
       /\ hist.nStartFbx <= 1
       /\ (last.op = "next_event" /\ last.ok)
          => hist.nStartFbx = 1
       /\ hist.nEndNode <= hist.nStartNode
       /\ (last.op = "next_event" /\ last.ev.type = "EndNode")
          => /\ last.pre.open_nodes # <<>>
             /\ parser.open_nodes = Pop(last.pre.open_nodes)
       /\ (last.op = "next_event" /\ last.ok)
          => num_open_nodes(parser) = hist.nStartNode - hist.nEndNode
       /\ (last.op = "next_event" /\ last.ev.type = "EndFbx")
          => /\ last.pre.open_nodes = <<>>
             /\ hist.nStartNode = hist.nEndNode

\* C7 witness: an EndNode that closes the inner of two open nodes.
C7_Witness ==
    /\ hist.pureNext
    /\ last.op = "next_event" /\ last.ev.type = "EndNode"
    /\ Len(last.pre.open_nodes) = 2

\* C8: the position never decreases, but by a seek through the sub-reader of
\* a special attribute value, which keeps it within the value.
C8_PositionMonotoneButSeek ==
    /\ last.op # "reader.seek" => parser.pos >= last.pre.pos
    /\ last.op = "reader.seek"
       => (parser.pos >= value.begin /\ parser.pos <= value.end)

\* C8 as stated: no operation decreases the position.
C8_PositionNeverDecreases == parser.pos >= last.pre.pos

\* C8 witness: a seek through the sub-reader has moved the position back.
C8_Witness ==
    /\ last.op = "reader.seek" /\ last.ok
    /\ parser.pos < last.pre.pos

\* Where the header of the event returned last starts: the header of the
\* node for StartNode, the null header for EndNode.
HeaderStart ==
    CASE last.ev.type = "StartNode" ->
            Last(parser.open_nodes).begin - last.ev.header.bytelen_name
              - HeaderLen(parser)
      [] last.ev.type = "EndNode" -> parser.pos - HeaderLen(parser)
      [] OTHER -> -1

\* A next_event call right after StartNode on a well-formed stream, whatever
\* was fetched of the attributes, on the root parser or through a view that
\* is not finished.
AfterStartNode ==
    /\ last.op \in NextEventOps
    /\ last.view.initial_depth <= num_open_nodes(last.pre)
    /\ WellFormed(parser.sid)
    /\ last.pre.state = "NodeStarted"
    /\ last.pre.open_nodes # <<>>

\* C9: after StartNode, whatever was fetched of the attributes, next_event
\* succeeds from attributes_end: it returns the event whose header starts
\* there or, for a node that ends there, an EndNode for which no header is
\* read.
C9_AttributesSkipped ==
    AfterStartNode
    => /\ last.ok
       /\ last.pre.pos <= Last(last.pre.open_nodes).attributes_end
       /\ \/ HeaderStart = Last(last.pre.open_nodes).attributes_end
          \/ /\ last.ev.type = "EndNode"
             /\ Last(last.pre.open_nodes).attributes_end
                  = Last(last.pre.open_nodes).end
             /\ parser.pos = Last(last.pre.open_nodes).attributes_end

\* C9 as stated: the event returned is always the one whose header starts at
\* attributes_end.
C9_HeaderAtAttributesEnd ==
    AfterStartNode
    => /\ last.ok
       /\ HeaderStart = Last(last.pre.open_nodes).attributes_end

\* C9 witness: next_event called from inside the attributes of the node,
\* some of their bytes read and some left, returned the event whose header
\* starts at attributes_end.
C9_Witness ==
    /\ AfterStartNode /\ last.ok
    /\ last.pre.pos > Last(last.pre.open_nodes).begin
    /\ last.pre.pos < Last(last.pre.open_nodes).attributes_end
    /\ HeaderStart = Last(last.pre.open_nodes).attributes_end

\* C10: after EndFbx, with a good footer or a footer error, every later
\* next_event returns Finished.
C10_FinishedAfterEndFbx ==
    (last.op \in NextEventOps /\ last.before.nEndFbx > 0)
    => /\ ~last.ok
       /\ last.err = Finished
       /\ last.ev = NoEvent

\* C10 witness: next_event called after an EndFbx that carried a footer
\* error.
C10_Witness ==
    /\ last.op = "next_event" /\ last.before.nEndFbx > 0
    /\ ~last.before.footer.ok
    /\ last.before.footer.err # NoError
    /\ last.err = Finished

\* The byte of a boolean value v in the stream, after its type code.
BoolByte(v) == stream[v.start + 2]

\* next_attribute has returned a boolean.
BoolFetched ==
    /\ last.op = "next_attribute" /\ last.ok
    /\ value.cls = "primitive" /\ value.code = 67

\* C11 as stated: the boolean byte 'T' decodes to true and 'Y' to false,
\* neither with a warning.
C11_TIsTrueYIsFalse ==
    (BoolFetched /\ BoolByte(value) \in {84, 89})
    => /\ value.val = (IF BoolByte(value) = 84 THEN 1 ELSE 0)
       /\ parser.warnings = last.pre.warnings

\* C12: a boolean byte b other than 'T' and 'Y' decodes to (b & 1) == 1 and
\* appends one InvalidBooleanAttributeValue warning; the parser is not put
\* in error and the attribute after it is read.
C12_BooleanLeniency ==
    /\ (BoolFetched /\ BoolByte(value) \notin {84, 89})
       => /\ value.val = BoolByte(value) % 2
          /\ parser.warnings
               = Append(last.pre.warnings,
                        Warning("InvalidBooleanAttributeValue", BoolByte(value),
                                BoolByte(value) % 2, value.start + 1))
          /\ parser.state = last.pre.state
          /\ attrs.live
    /\ (/\ last.op = "next_attribute"
        /\ WellFormed(parser.sid)
        /\ last.fetched.cls = "primitive" /\ last.fetched.code = 67
        /\ BoolByte(last.fetched) \notin {84, 89})
       => last.ok

\* C12 witness: after two booleans with warnings, one for an even byte and
\* one for an odd byte, the i16 behind them was read.
C12_Witness ==
    /\ last.op = "next_attribute" /\ last.ok
    /\ last.fetched.cls = "primitive" /\ last.fetched.code = 67
    /\ BoolByte(last.fetched) = 1 /\ last.fetched.val = 1
    /\ value.cls = "primitive" /\ value.code = 89 /\ value.val = 5
    /\ Len(parser.warnings) = 2
    /\ parser.warnings[1].a = 70 /\ parser.warnings[1].b = 0

\* C13: skip_current_node on the root parser with no node open returns
\* Ok(false) and changes nothing; with a node open it pops that node and
\* returns Ok(true) at the node's end offset in state NodeEnded when the
\* skip succeeds, the I/O error of the skip when the basic source runs out
\* of data before the end offset, and panics when the end offset lies
\* behind the position.
C13_SkipCurrentNodeContract ==
    last.op = "skip_current_node"
    => IF last.pre.open_nodes = <<>>
       THEN last.ok /\ ~last.ret /\ parser = last.pre
       ELSE /\ parser.open_nodes = Pop(last.pre.open_nodes)
            /\ \/ /\ last.ok /\ last.ret
                  /\ parser.pos = Last(last.pre.open_nodes).end
                  /\ parser.state = "NodeEnded"
               \/ /\ ~last.ok /\ last.err = IoError
                  /\ parser.kind = "basic"
                  /\ Last(last.pre.open_nodes).end > Len(stream)
                  /\ parser.state = last.pre.state
               \/ /\ ~last.ok /\ parser.panic # ""
                  /\ Last(last.pre.open_nodes).end < last.pre.pos
                  /\ parser.pos = last.pre.pos

\* C13 as stated: Ok(true) exactly when a node is open, with that node
\* popped, the position at its end offset and the state NodeEnded;
\* otherwise Ok(false) and nothing changed.
C13_OkTrueWheneverOpen ==
    last.op = "skip_current_node"
    => /\ last.ok
       /\ last.ret <=> last.pre.open_nodes # <<>>
       /\ last.ret => /\ parser.open_nodes = Pop(last.pre.open_nodes)
                      /\ parser.pos = Last(last.pre.open_nodes).end
                      /\ parser.state = "NodeEnded"
       /\ ~last.ret => parser = last.pre

\* C13 witness: the inner of two open nodes was skipped over bytes not yet
\* read.
C13_Witness ==
    /\ last.op = "skip_current_node" /\ last.ok /\ last.ret
    /\ Len(last.pre.open_nodes) = 2
    /\ last.pre.pos < parser.pos
    /\ parser.pos = Last(last.pre.open_nodes).end
    /\ parser.state = "NodeEnded"

\* next_event or skip_current_node was called on a view that was finished:
\* the root had fewer open nodes than the depth the view saved.
FinishedViewCalled ==
    /\ last.op \in {"view.next_event", "view.skip_current_node"}
    /\ num_open_nodes(last.pre) < last.view.initial_depth

\* C14: next_event and skip_current_node on a finished view leave the root
\* parser as it was and return Finished, or the error the root has latched
\* if it has latched one.
C14_FinishedViewRefuses ==
    FinishedViewCalled
    => /\ ~last.ok
       /\ last.err = (IF last.pre.state = "Err" THEN last.pre.err ELSE Finished)
       /\ last.ev = NoEvent /\ ~last.ret
       /\ parser = last.pre

\* C14 as stated: the error returned by a finished view is always Finished.
C14_FinishedViewReturnsFinished ==
    FinishedViewCalled
    => /\ ~last.ok
       /\ last.err = Finished
       /\ parser = last.pre

\* C14 witness: skip_current_node refused with Finished by a view whose
\* node was closed, with the root not in error and a parent still open.
C14_Witness ==
    /\ FinishedViewCalled
    /\ last.op = "view.skip_current_node"
    /\ last.pre.state = "NodeEnded"
    /\ num_open_nodes(last.pre) = 1
    /\ ~last.ok /\ last.err = Finished
    /\ parser = last.pre

\* skip_to_end returned Ok on a view made at depth 1 or more, through which
\* every call since it was made went.
SkipToEndReturned ==
    /\ last.op = "view.skip_to_end" /\ last.ok
    /\ last.view.initial_depth >= 1
    /\ ~last.view.derived

\* C15: when skip_to_end returns Ok on a view made at depth d >= 1, the root
\* has d - 1 open nodes, the ones below the node that was open at depth d,
\* the position is the end_offset of that node, and on a well-formed stream
\* the events that follow are the ones that follow the EndNode of that node.
C15_SkipToEndClosesSubtree ==
    SkipToEndReturned
    => /\ num_open_nodes(parser) = last.view.initial_depth - 1
       /\ parser.open_nodes
            = SubSeq(last.pre.open_nodes, 1, last.view.initial_depth - 1)
       /\ parser.pos = last.view.opened.end
       /\ WellFormed(parser.sid)
          => Trace(parser, MaxEvents)
               = Trace(ConsumeSubtree(last.pre, last.view.initial_depth,
                                      MaxEvents), MaxEvents)

\* C15 witness: skip_to_end closed two nodes at once, after some events of
\* the subtree were read through the view.
C15_Witness ==
    /\ SkipToEndReturned
    /\ num_open_nodes(last.pre) > last.view.initial_depth
    /\ num_open_nodes(parser) = last.view.initial_depth - 1
    /\ parser.pos = last.view.opened.end
    /\ parser.state = "NodeEnded"

\* C15 witness of the other end: every event of the subtree, the closing
\* EndNode included, was read through the view before skip_to_end.
C15_WitnessAllRead ==
    /\ SkipToEndReturned
    /\ num_open_nodes(last.pre) < last.view.initial_depth
    /\ parser = last.pre
    /\ parser.pos = last.view.opened.end

\* What a caller observes, call after call, of the events of the nodes kids
\* encoded from offset start on with fields of width w: the events the
\* encoder wrote, in the shape of Observed.
RECURSIVE ExpectedNode(_, _, _), ExpectedKids(_, _, _)
ExpectedNode(n, start, w) ==
    LET begin   == start + 3 * w + 1 + Len(n.name)
        attrEnd == begin + Len(Flatten(n.attrs))
        end     == start + Len(EncNode(n, start, w))
    IN  <<[ok |-> TRUE, err |-> NoError,
           ev |-> StartNode([end_offset |-> end,
                             num_attributes |-> Len(n.attrs),
                             bytelen_attributes |-> Len(Flatten(n.attrs)),
                             bytelen_name |-> Len(n.name)]),
           name |-> Some(n.name), pos |-> begin]>>
        \o ExpectedKids(n.kids, attrEnd, w)
        \o <<[ok |-> TRUE, err |-> NoError, ev |-> EndNode, name |-> None,
              pos |-> end]>>
ExpectedKids(kids, start, w) ==
    IF kids = <<>> THEN <<>>
    ELSE ExpectedNode(Head(kids), start, w)
           \o ExpectedKids(Tail(kids),
                           start + Len(EncNode(Head(kids), start, w)), w)

\* The events before EndFbx of the stream EncFbx(version, _, kids, _).
ExpectedEvents(version, kids) ==
    <<[ok |-> TRUE, err |-> NoError, ev |-> StartFbx(version), name |-> None,
       pos |-> Len(MAGIC) + 2 + 4]>>
    \o ExpectedKids(kids, Len(MAGIC) + 2 + 4, FieldWidth(version))

\* The version the footer of the stream stores: the four bytes before the
\* 120 zero bytes and the last 16 bytes.
StoredFooterVersion == from_le(SubSeq(stream, Len(stream) - 139, Len(stream) - 136))

\* next_event returned EndFbx.
EndFbxReturned ==
    /\ last.op \in NextEventOps /\ last.ok
    /\ last.ev.type = "EndFbx"

\* next_event returned EndFbx with the version mismatch as the footer.
MismatchReturned ==
    /\ EndFbxReturned
    /\ last.ev.footer.err.type = "HeaderFooterVersionMismatch"

\* C16: a footer version that differs from the header version is returned
\* inside a successful EndFbx event as Err(HeaderFooterVersionMismatch)
\* with both versions; the parser is then in the Finished state, with no
\* other error latched; and the events before that EndFbx are the ones of
\* the same stream with a matching footer.
C16_FooterMismatchIsAValue ==
    /\ (/\ EndFbxReturned
        /\ WellFormed(parser.sid) \/ stream = S_Mismatch
        /\ StoredFooterVersion # parser.fbx_version)
       => /\ ~last.ev.footer.ok
          /\ last.ev.footer.err
               = Error("HeaderFooterVersionMismatch", parser.fbx_version,
                       StoredFooterVersion, 0)
    /\ MismatchReturned
       => /\ ~last.ev.footer.ok
          /\ last.ev.footer.err.a = parser.fbx_version
          /\ last.ev.footer.err.b # parser.fbx_version
          /\ parser.state = "Err" /\ parser.err = Finished
          /\ next_event(parser) = Err(parser, Finished)
    /\ (EndFbxReturned /\ stream \in {S_Flat, S_Mismatch})
       => Let(Trace(RootParser(parser.sid, parser.kind), MaxEvents), LAMBDA t :
              /\ Len(t) = Len(ExpectedEvents(7400, FlatKids)) + 2
              /\ SubSeq(t, 1, Len(t) - 2) = ExpectedEvents(7400, FlatKids)
              /\ t[Len(t) - 1].ok /\ t[Len(t) - 1].ev.type = "EndFbx"
              /\ t[Len(t) - 1].ev.footer.ok = (stream = S_Flat))

\* C16 witness: next_event called and nothing else, on the stream with
\* header version 7400 and footer version 7500, returned both nodes and
\* then EndFbx with the mismatch.
C16_Witness ==
    /\ MismatchReturned
    /\ stream = S_Mismatch
    /\ hist.pureNext /\ hist.nStartNode = 2 /\ hist.nEndNode = 2
    /\ last.ev.footer.err = Error("HeaderFooterVersionMismatch", 7400, 7500, 0)
    /\ parser.err = Finished

\* The offset at which the footer read by the last call had its padding
\* start: after the null header of the implicit root and 16 unknown bytes.
PaddingStart == last.pre.pos + HeaderLen(parser) + 16

\* The length of the zero padding of the footer of the stream: what lies
\* between the first 16 unknown bytes and the last 144 bytes.
PaddingLen == Len(stream) - 144 - PaddingStart

\* next_event returned EndFbx on a stream that is well formed but for the
\* length of the padding of its footer, which is between 0 and 15.
MisalignedFooterRead ==
    /\ EndFbxReturned
    /\ WellFormed(parser.sid)
    /\ PaddingLen \in 0..15
    /\ PaddingLen # AlignPadding(PaddingStart)

RunEnded ==
    /\ last.op = "next_event" /\ hist.pureNext
    /\ last.pre.state # "Err" /\ parser.state = "Err"

\* The events of a run of next_event alone were StartFbx and EndFbx.
OnlyStartAndEnd ==
    /\ last.ok /\ last.ev.type = "EndFbx"
    /\ hist.first = "StartFbx"
    /\ hist.nStartFbx = 1 /\ hist.nEndFbx = 1
    /\ hist.nStartNode = 0 /\ hist.nEndNode = 0
    /\ parser.fbx_version = 7400
    /\ Let(Trace(RootParser(parser.sid, parser.kind), MaxEvents), LAMBDA t :
           /\ Len(t) = 3
           /\ t[1].ok /\ t[1].ev = StartFbx(7400)
           /\ t[2].ok /\ t[2].ev = last.ev
           /\ ~t[3].ok /\ t[3].err = Finished)

OddBytesAfterMagic ==
    /\ Len(stream) >= Len(MAGIC) + 2 + 4
    /\ SubSeq(stream, 1, Len(MAGIC)) = MAGIC
    /\ SubSeq(stream, Len(MAGIC) + 1, Len(MAGIC) + 2) # UNKNOWN_BYTES

\* The warning for the two bytes after the magic of the stream.
OddBytesWarning ==
    Warning("UnexpectedBytesAfterMagic",
            stream[Len(MAGIC) + 1], stream[Len(MAGIC) + 2], 0)

\* C19: when the magic matches and the two bytes after it are not
\* 0x1A 0x00, the first next_event returns StartFbx with the version of the
\* header and records one warning; no error is latched; that warning stays
\* the only one; and the events that follow are those of the stream with
\* 0x1A 0x00, up to EndFbx with an Ok footer.
C19_OddBytesOnlyWarn ==
    /\ (/\ OddBytesAfterMagic
        /\ last.op \in NextEventOps /\ last.pre.state = "Header")
       => /\ last.ok
          /\ last.ev = StartFbx(from_le(SubSeq(stream, Len(MAGIC) + 3,
                                               Len(MAGIC) + 6)))
          /\ parser.fbx_version = last.ev.version
          /\ parser.warnings = <<OddBytesWarning>>
          /\ parser.state = "NodeEnded" /\ parser.err = NoError
          /\ parser.pos = Len(MAGIC) + 2 + 4
          /\ Let(Trace(parser, MaxEvents), LAMBDA t :
                 /\ Len(t) = Len(ExpectedKids(FlatKids, parser.pos, 4)) + 2
                 /\ SubSeq(t, 1, Len(t) - 2)
                      = ExpectedKids(FlatKids, parser.pos, 4)
                 /\ t[Len(t) - 1].ok
                 /\ t[Len(t) - 1].ev.type = "EndFbx"
                 /\ t[Len(t) - 1].ev.footer.ok
                 /\ t[Len(t)].err = Finished)
    /\ (OddBytesAfterMagic /\ parser.fbx_version # -1)
       => parser.warnings = <<OddBytesWarning>>

\* C19 witness: after 0x1B 0x00 in place of 0x1A 0x00, next_event called
\* and nothing else reached EndFbx with an Ok footer and one warning.
C19_Witness ==
    /\ stream = S_Magic2
    /\ RunEnded /\ last.ok /\ last.ev.type = "EndFbx" /\ last.ev.footer.ok
    /\ hist.first = "StartFbx" /\ hist.nStartNode = 2 /\ hist.nEndNode = 2
    /\ parser.warnings = <<Warning("UnexpectedBytesAfterMagic", 27, 0, 0)>>

\* read_into_buf returned Ok.
BulkRead == last.op = "array.read_into_buf" /\ last.ok

\* C20: read_into_buf on a reader with r elements left and a buffer of k
\* slots returns min(k, r), and rest_elements() then reports r - min(k, r).
C20_BulkReadCounts ==
    BulkRead
    => /\ last.size = Min(last.arg, last.fetched.rest_elements)
       /\ ArrayAttributeReader_rest_elements(value)
            = last.fetched.rest_elements
                - Min(last.arg, last.fetched.rest_elements)

\* What holds of read_into_buf: it returns min(k, r), reads that many
\* elements from the source and leaves r - min(k, r) to the iterator, while
\* rest_elements() goes on reporting the number of elements of the array.
C20_BulkReadReturnsMin ==
    BulkRead
    => /\ last.size = Min(last.arg, last.fetched.rest_elements)
       /\ value.rest_elements = last.fetched.rest_elements - last.size
       /\ parser.pos = last.pre.pos + last.size * ElementWidth(value.code)
       /\ ArrayAttributeReader_rest_elements(value)
            = ArrayAttributeReader_num_elements(value)

\* A bulk read into a buffer half the size of the array returned half of
\* the elements, and rest_elements() reports them all.
C20_HalfRead ==
    /\ BulkRead
    /\ last.fetched.rest_elements = 2 /\ last.arg = 1 /\ last.size = 1
    /\ value.rest_elements = 1
    /\ ArrayAttributeReader_rest_elements(value) = 2

\* next_event was called, on the root parser or through a view that was not
\* finished, in a state in which it reads a node event, with a node open
\* and the source in step with the stream.
NodeEventCalled ==
    /\ last.op \in NextEventOps
    /\ last.view.initial_depth <= num_open_nodes(last.pre)
    /\ last.pre.state \in {"NodeStarted", "NodeEnded"}
    /\ last.pre.open_nodes # <<>>
    /\ last.pre.pos = last.pre.off

\* The offset from which that call read a node header: the end of the
\* attributes after StartNode, the position after EndNode.
HeaderAt ==
    IF last.pre.state = "NodeStarted"
    THEN Last(last.pre.open_nodes).attributes_end
    ELSE last.pre.pos

\* That call read a node header, from an offset it could skip forward to
\* and that is not the end of the topmost open node after StartNode.
HeaderRead ==
    /\ NodeEventCalled
    /\ HeaderAt >= last.pre.pos
    /\ HeaderAt + HeaderLen(last.pre) <= Len(stream)
    /\ last.pre.state = "NodeStarted" => HeaderAt # Last(last.pre.open_nodes).end

\* The header that call read was a null header.
NullHeaderRead ==
    /\ HeaderRead
    /\ \A i \in 1..HeaderLen(last.pre) : stream[HeaderAt + i] = 0

\* C29: a null header read with a node open, at whose end the position is
\* not the end_offset of the topmost open node, makes next_event fail with
\* WrongNodeEndOffset naming the begin and end_offset of that node and the
\* position after the header; no EndNode is returned; the node is popped;
\* and the error is latched: the next call returns it again.
C29_WrongEndOffsetLatched ==
    (/\ NullHeaderRead
     /\ HeaderAt + HeaderLen(last.pre) # Last(last.pre.open_nodes).end)
    => /\ ~last.ok /\ last.ev = NoEvent
       /\ last.err = Error("WrongNodeEndOffset",
                           Last(last.pre.open_nodes).begin,
                           Last(last.pre.open_nodes).end,
                           HeaderAt + HeaderLen(last.pre))
       /\ parser.pos = HeaderAt + HeaderLen(last.pre)
       /\ parser.state = "Err" /\ parser.err = last.err
       /\ parser.open_nodes = Pop(last.pre.open_nodes)
       /\ next_event(parser) = Err(parser, last.err)

\* C29 witness: the null header that ends B was read one byte before the
\* end_offset B declares.
C29_Witness ==
    /\ NullHeaderRead
    /\ HeaderAt + HeaderLen(last.pre) + 1 = Last(last.pre.open_nodes).end
    /\ last.err.type = "WrongNodeEndOffset"
    /\ parser.state = "Err"

\* next_event was called after StartNode and could skip to the end of the
\* attributes of the topmost open node.
AttributesSkipped ==
    /\ NodeEventCalled
    /\ last.pre.state = "NodeStarted"
    /\ HeaderAt >= last.pre.pos
    /\ last.pre.kind = "basic" => HeaderAt <= Len(stream)

\* C30: after StartNode, when the end of the attributes is the end_offset of
\* the topmost open node, next_event returns EndNode, reads no byte beyond
\* the attributes, pops that node and moves to NodeEnded; otherwise it
\* reads a node header from the end of the attributes and returns what
\* that header makes of it.
C30_SynthesisedEndNode ==
    AttributesSkipped
    => IF HeaderAt = Last(last.pre.open_nodes).end
       THEN /\ last.ok /\ last.ev = EndNode
            /\ parser.pos = HeaderAt /\ parser.off = HeaderAt
            /\ parser.open_nodes = Pop(last.pre.open_nodes)
            /\ parser.state = "NodeEnded"
       ELSE /\ \E r \in {read_node_event([last.pre EXCEPT !.pos = HeaderAt,
                                                          !.off = HeaderAt])} :
                 /\ parser = (IF r.ok \/ r.p.panic # "" THEN r.p
                              ELSE set_error(r.p, r.err))
                 /\ last.ok = r.ok /\ last.err = r.err
                 /\ last.ev = EventOf(r)
            /\ IF HeaderAt + HeaderLen(last.pre) <= Len(stream)
               THEN parser.pos >= HeaderAt + HeaderLen(last.pre)
               ELSE /\ ~last.ok /\ last.err = IoError
                    /\ parser.pos >= HeaderAt
                    /\ parser.pos < HeaderAt + HeaderLen(last.pre)

\* C30 witness: the node A, which has attributes and no null header, was
\* closed by an EndNode read from no byte.
C30_Witness ==
    /\ AttributesSkipped
    /\ HeaderAt = Last(last.pre.open_nodes).end
    /\ HeaderAt > Last(last.pre.open_nodes).begin
    /\ last.ok /\ last.ev = EndNode
    /\ parser.pos = HeaderAt /\ parser.state = "NodeEnded"

\* C30 witness of the other branch: a StartNode read from the end of the
\* attributes of its parent.
C30_WitnessHeader ==
    /\ AttributesSkipped
    /\ HeaderAt # Last(last.pre.open_nodes).end
    /\ last.ok /\ last.ev.type = "StartNode"
    /\ Last(parser.open_nodes).begin
         = HeaderAt + HeaderLen(parser) + last.ev.header.bytelen_name

\* C27: every open-node record on the stack of the root parser has
\* begin <= attributes_end <= end, whatever the input stream is.
C27_OpenNodeOrdered ==
    \A i \in 1..Len(parser.open_nodes) :
        /\ parser.open_nodes[i].begin <= parser.open_nodes[i].attributes_end
        /\ parser.open_nodes[i].attributes_end <= parser.open_nodes[i].end

\* C27 on the streams an encoder lays out: there the records are ordered.
C27_OrderedWhenWellFormed ==
    WellFormed(parser.sid) => C27_OpenNodeOrdered

(***************************************************************************)
(* The parser sources alone (reader.rs): a caller that builds a            *)
(* BasicSource or a SeekableSource over a stream of zero bytes, as         *)
(* tests::test_skip_to does, and then reads and skips.                     *)
(***************************************************************************)
\* The buffer sizes of tests::test_skip_to.
SourceSizes == {0, 15, 30, 64, 512}

\* The destinations of tests::test_skip_to, and some that make a second
\* skip cross the 256-byte buffer or go nowhere.
SkipDests == {0, 15, 23, 30, 64, 300, 401, 512}

\* The lengths the caller reads with read_exact.
ReadLens == {1, 16, 300}

SourceCalled(op, r, arg) ==
    [Called(op, parser, NoView, r.ok, r.err, NoEvent, FALSE) EXCEPT !.arg = arg]

SourceInit ==
    /\ \E n \in SourceSizes, kind \in {"basic", "seekable"} :
          /\ stream = Zeros(n)
          /\ parser = RootParser(0, kind)
    /\ views = <<>>
    /\ attrs = NoAttributes
    /\ value = NoValue
    /\ hist = NoHist
    /\ loader = NoLoader
    /\ last = [op |-> "new", pre |-> parser, before |-> NoHist,
               fetched |-> NoValue, view |-> NoView,
               ok |-> TRUE, err |-> NoError, ev |-> NoEvent, ret |-> FALSE,
               arg |-> 0, size |-> 0]

\* source.skip_to(dest_pos)
SourceSkipTo ==
    /\ Alive
    /\ \E dest_pos \in SkipDests :
         \E r \in {skip_to(parser, dest_pos)} :
            /\ parser' = r.p
            /\ last' = SourceCalled("skip_to", r, dest_pos)
    /\ UNCHANGED <<stream, views, attrs, value, hist, loader>>

\* source.read_exact(&mut buf) with a buffer of len bytes
SourceReadExact ==
    /\ Alive
    /\ \E len \in ReadLens :
         \E r \in {read_exact(parser, len)} :
            /\ parser' = r.p
            /\ last' = SourceCalled("read_exact", r, len)
    /\ UNCHANGED <<stream, views, attrs, value, hist, loader>>

SourceNext == SourceSkipTo \/ SourceReadExact

SpecSource == SourceInit /\ [][SourceNext]_vars

\* A skip_to(dest) with position() <= dest <= n that returned Ok.
SkipToReturnedOk ==
    /\ last.op = "skip_to" /\ last.ok
    /\ last.pre.pos <= last.arg /\ last.arg <= Len(stream)

\* C26 as stated: after any such skip_to, on either source, position() and
\* the offset of the wrapped stream both equal dest.
C26_SkipToLandsOnDest ==
    SkipToReturnedOk => parser.pos = last.arg /\ parser.off = last.arg

\* C26: after such a skip_to, position() equals dest; the offset of the
\* wrapped stream equals dest on a SeekableSource, and on a BasicSource
\* whose position was the offset of the wrapped stream before the call
\* (no read_exact has failed); a BasicSource moves the wrapped stream by
\* dest - position() from wherever it is.
C26_SkipToLandsOnDestInStep ==
    SkipToReturnedOk
    => /\ parser.pos = last.arg
       /\ (last.pre.kind = "seekable" \/ last.pre.pos = last.pre.off)
            => parser.off = last.arg
       /\ last.pre.kind = "basic"
            => parser.off - last.pre.off = last.arg - last.pre.pos

\* C26 witness: a BasicSource that stood at a position past the start
\* discarded more than its 256-byte buffer holds and stands on dest.
C26_Witness ==
    /\ SkipToReturnedOk
    /\ last.pre.kind = "basic" /\ last.pre.pos > 0
    /\ last.pre.pos = last.pre.off
    /\ last.arg - last.pre.pos > TEMP_BUF_LEN
    /\ parser.pos = last.arg /\ parser.off = last.arg

\* C26 witness of the skip that goes nowhere, on a SeekableSource.
C26_WitnessNowhere ==
    /\ SkipToReturnedOk
    /\ last.pre.kind = "seekable" /\ last.arg = last.pre.pos /\ last.arg > 0
    /\ parser.pos = last.arg /\ parser.off = last.arg

(***************************************************************************)
(* Conversion of attributes into values (utils/attribute_value.rs).        *)
(* Integers are kept as the unsigned value of their little-endian bytes    *)
(* (the streams of the model keep the sign bit of i32 and i64 clear), and  *)
(* floating-point numbers as their little-endian bytes.                    *)
(***************************************************************************)
\* The outcome of a conversion: Ok(Some(v)), Ok(None) or Err(err).
Conv(p, v)     == [p |-> p, ok |-> TRUE, err |-> NoError, some |-> TRUE, v |-> v]
ConvNone(p)    == [p |-> p, ok |-> TRUE, err |-> NoError, some |-> FALSE, v |-> 0]
ConvErr(p, e)  == [p |-> p, ok |-> FALSE, err |-> e, some |-> FALSE, v |-> 0]

\* io::ErrorKind::InvalidData
InvalidData == Error("Io", 2, 0, 0)

\* `val as i32` and `val as i64` of an i16: the sign is extended.
i16_as_int(raw) == IF raw >= 32768 THEN raw - 65536 ELSE raw

\* `val as f64` of an f32, on the bytes of both: the sign, the exponent
\* rebiased from 127 to 1023, and the 23 bits of the fraction followed by 29
\* zero bits.  Zero keeps its sign; an infinity or a NaN keeps its fraction.
\* The streams of the model hold no subnormal f32.
f32_as_f64(b) ==
    LET sign  == b[4] \div 128
        e8    == (b[4] % 128) * 2 + b[3] \div 128
        m     == (b[3] % 128) * 65536 + b[2] * 256 + b[1]
        exp11 == IF e8 = 0 THEN 0 ELSE IF e8 = 255 THEN 2047 ELSE e8 + 896
    IN  <<0, 0, 0>> \o LE((m % 524288) * 32, 3)
          \o <<(exp11 % 16) * 16 + m \div 524288, sign * 128 + exp11 \div 16>>

\* `v as f32` of an f64, on the bytes of both: the exponent rebiased from
\* 1023 to 127 and the fraction rounded to 23 bits, to nearest and to even on
\* a tie; a fraction that rounds up to 2^23 carries into the exponent, and an
\* exponent past 254 makes an infinity.  The streams of the model hold no
\* f64 below the normal range of f32, except zero.
f64_as_f32(b) ==
    LET sign  == b[8] \div 128
        exp11 == (b[8] % 128) * 16 + b[7] \div 16
        top23 == (b[7] % 16) * 524288 + b[6] * 2048 + b[5] * 8 + b[4] \div 32
        low29 == (b[4] % 32) * 16777216 + b[3] * 65536 + b[2] * 256 + b[1]
        up    == low29 > 268435456 \/ (low29 = 268435456 /\ top23 % 2 = 1)
        m1    == IF up /\ exp11 # 2047 THEN top23 + 1 ELSE top23
        e1    == IF exp11 = 0 THEN 0
                 ELSE IF exp11 = 2047 THEN 255
                 ELSE exp11 - 896 + (IF m1 = 8388608 THEN 1 ELSE 0)
        e8    == Min(e1, 255)
        m     == IF e1 >= 255 /\ exp11 # 2047 THEN 0
                 ELSE IF exp11 = 0 THEN 0 ELSE m1 % 8388608
    IN  <<m % 256, (m \div 256) % 256, (e8 % 2) * 128 + m \div 65536,
          sign * 128 + e8 \div 2>>

\* str::from_utf8 succeeds, on the bytes the streams of the model hold:
\* ASCII, and 0xFF, which no UTF-8 sequence contains.
from_utf8_ok(bytes) == \A i \in 1..Len(bytes) : bytes[i] < 128

\* SpecialAttribute::into_vec: read_to_end through the limited reader.
SpecialAttribute_into_vec(p, v) ==
    Let(LimitedSeekReader_read(p, v, Max(0, v.end - p.pos)), LAMBDA r :
    IF ~r.ok THEN r
    ELSE Ok(r.p, SubSeq(stream, p.off + 1, p.off + r.v)))

\* SpecialAttribute::into_string: read_to_string through the limited reader.
SpecialAttribute_into_string(p, v) ==
    Let(SpecialAttribute_into_vec(p, v), LAMBDA r :
    IF ~r.ok THEN r
    ELSE IF ~from_utf8_ok(r.v) THEN Err(r.p, InvalidData)
    ELSE r)

\* The n elements of w bytes each an array reader finds at the position of p.
Elements(p, n, w) ==
    [i \in 1..n |-> SubSeq(stream, p.off + (i - 1) * w + 1, p.off + i * w)]

\* ArrayAttributeReader::into_vec: a vector of rest_elements slots, filled
\* by read_into_buf.
ArrayAttributeReader_into_vec(p, v) ==
    Let(read_into_buf(p, v, v.rest_elements), LAMBDA r :
    IF ~r.ok THEN Err(r.p, r.err)
    ELSE Ok(r.p, Elements(p, v.rest_elements, ElementWidth(v.code))))

\* <ArrayAttributeReader as Iterator>::next: None, Some(Ok(x)) or
\* Some(Err(err)).
ArrayAttributeReader_next(p, v) ==
    IF v.rest_elements = 0
    THEN [p |-> p, v |-> v, some |-> FALSE, ok |-> TRUE, err |-> NoError,
          x |-> <<>>]
    ELSE Let(ArrayDecoder_read(p, [v EXCEPT !.rest_elements = @ - 1],
                               ElementWidth(v.code)), LAMBDA r :
         [p |-> r.p, v |-> r.v, some |-> TRUE, ok |-> r.ok, err |-> r.err,
          x |-> IF r.ok THEN SubSeq(stream, p.off + 1,
                                    p.off + ElementWidth(v.code))
                ELSE <<>>])

\* The element x of an array of type code `from`, as the element type `to`
\* of the vector it is collected into.
ElementAs(x, from, to) ==
    IF from = 102 /\ to = "f64" THEN f32_as_f64(x)
    ELSE IF from = 100 /\ to = "f32" THEN f64_as_f32(x)
    ELSE x

\* arr.into_iter().map(..).collect::<IoResult<_>>()
RECURSIVE ArrayAttributeReader_collect(_, _, _, _)
ArrayAttributeReader_collect(p, v, to, acc) ==
    Let(ArrayAttributeReader_next(p, v), LAMBDA n :
    IF ~n.some THEN Ok(n.p, acc)
    ELSE IF ~n.ok THEN Err(n.p, n.err)
    ELSE ArrayAttributeReader_collect(n.p, n.v, to,
                                      Append(acc, ElementAs(n.x, v.code, to))))

\* array_attr_f32_into_vec3 and array_attr_f64_into_vec3: the vector is
\* made with_capacity(num_vecs), so its len() is 0 when the slice of
\* components is checked against it.
array_attr_into_vec3(p, v) ==
    LET components_len     == ArrayAttributeReader_rest_elements(v)
        remainder          == components_len % 3
        components_buf_len == components_len - remainder
        vec_len            == 0
    IN  IF ~(components_buf_len <= vec_len * 3)
        THEN Panic(p, "assertion failed: components_buf.len() <= vec.len() * 3")
        ELSE Let(read_into_buf(p, v, components_buf_len), LAMBDA r :
             IF ~r.ok THEN Err(r.p, r.err)
             ELSE IF r.size # components_buf_len
             THEN Panic(r.p, "assertion failed: size == components_buf_len")
             ELSE Ok(r.p, <<>>))

\* The while-let loop of the loose conversions into Vec<[f32; 3]> and
\* Vec<[f64; 3]>: three elements at a time, until the iterator ends.
RECURSIVE collect_vec3(_, _, _, _)
collect_vec3(p, v, to, buf) ==
    Let(ArrayAttributeReader_next(p, v), LAMBDA n0 :
    IF ~n0.some THEN Ok(n0.p, buf)
    ELSE IF ~n0.ok THEN Err(n0.p, n0.err)
    ELSE
    Let(ArrayAttributeReader_next(n0.p, n0.v), LAMBDA n1 :
    IF ~n1.some THEN Ok(n1.p, buf)
    ELSE IF ~n1.ok THEN Err(n1.p, n1.err)
    ELSE
    Let(ArrayAttributeReader_next(n1.p, n1.v), LAMBDA n2 :
    IF ~n2.some THEN Ok(n2.p, buf)
    ELSE IF ~n2.ok THEN Err(n2.p, n2.err)
    ELSE collect_vec3(n2.p, n2.v, to,
                      Append(buf, <<ElementAs(n0.x, v.code, to),
                                    ElementAs(n1.x, v.code, to),
                                    ElementAs(n2.x, v.code, to)>>)))))

\* Ok(Some(v)) of an io::Result, its error otherwise.
ConvOf(r) == IF r.ok THEN Conv(r.p, r.v) ELSE ConvErr(r.p, r.err)

\* AttributeValue::from_attribute_loose for the type ty, of the attribute v
\* that next_attribute returned.
from_attribute_loose(ty, p, v) ==
    CASE ty = "()" -> Conv(p, <<>>)
      [] ty = "bool" ->
            IF v.cls = "primitive" /\ v.code = 67 THEN Conv(p, v.val = 1)
            ELSE ConvNone(p)
      [] ty = "i16" ->
            IF v.cls = "primitive" /\ v.code = 89 THEN Conv(p, i16_as_int(v.val))
            ELSE ConvNone(p)
      [] ty = "i32" ->
            IF v.cls = "primitive" /\ v.code = 89 THEN Conv(p, i16_as_int(v.val))
            ELSE IF v.cls = "primitive" /\ v.code = 73 THEN Conv(p, v.val)
            ELSE ConvNone(p)
      [] ty = "i64" ->
            IF v.cls = "primitive" /\ v.code = 89 THEN Conv(p, i16_as_int(v.val))
            ELSE IF v.cls = "primitive" /\ v.code \in {73, 76} THEN Conv(p, v.val)
            ELSE ConvNone(p)
      [] ty = "f64" ->
            IF v.cls = "primitive" /\ v.code = 70
            THEN Conv(p, f32_as_f64(LE(v.val, 4)))
            ELSE IF v.cls = "primitive" /\ v.code = 68 THEN Conv(p, LE(v.val, 8))
            ELSE ConvNone(p)
      [] ty = "Vec<i32>" ->
            IF v.cls = "array" /\ v.code = 105
            THEN ConvOf(ArrayAttributeReader_into_vec(p, v))
            ELSE ConvNone(p)
      [] ty = "Vec<f64>" ->
            IF v.cls = "array" /\ v.code = 102
            THEN ConvOf(ArrayAttributeReader_collect(p, v, "f64", <<>>))
            ELSE IF v.cls = "array" /\ v.code = 100
            THEN ConvOf(ArrayAttributeReader_into_vec(p, v))
            ELSE ConvNone(p)
      [] ty = "Vec<[f32; 3]>" ->
            IF v.cls = "array" /\ v.code = 102
            THEN ConvOf(array_attr_into_vec3(p, v))
            ELSE IF v.cls = "array" /\ v.code = 100
            THEN ConvOf(collect_vec3(p, v, "f32", <<>>))
            ELSE ConvNone(p)
      [] ty = "Vec<[f64; 3]>" ->
            IF v.cls = "array" /\ v.code = 102
            THEN ConvOf(collect_vec3(p, v, "f64", <<>>))
            ELSE IF v.cls = "array" /\ v.code = 100
            THEN ConvOf(array_attr_into_vec3(p, v))
            ELSE ConvNone(p)
      [] ty = "String" ->
            IF v.cls = "special" /\ v.code = 83
            THEN ConvOf(SpecialAttribute_into_string(p, v))
            ELSE ConvNone(p)
      [] ty = "Vec<u8>" ->
            IF v.cls = "special" THEN ConvOf(SpecialAttribute_into_vec(p, v))
            ELSE ConvNone(p)
      [] OTHER -> ConvNone(p)

\* The outcome of from_attributes: the parser and the iterator afterwards,
\* and Ok(Some(values)), Ok(None) or Err(err).
Values(p, a, vs)  ==
    [p |-> p, a |-> a, ok |-> TRUE, err |-> NoError, some |-> TRUE, v |-> vs]
ValuesNone(p, a)  ==
    [p |-> p, a |-> a, ok |-> TRUE, err |-> NoError, some |-> FALSE, v |-> <<>>]
ValuesErr(p, a, e) ==
    [p |-> p, a |-> a, ok |-> FALSE, err |-> e, some |-> FALSE, v |-> <<>>]

\* AttributeValues::from_attributes for the tuple of types tys
\* (impl_attribute_values!): for each type, the next attribute, loosely
\* converted.
RECURSIVE from_attributes_rest(_, _, _, _)
from_attributes_rest(tys, p, a, acc) ==
    IF tys = <<>> THEN Values(p, a, acc)
    ELSE
    Let(next_attribute(p, a), LAMBDA n :
    IF ~n.ok THEN ValuesErr(n.p, n.a, n.err)
    ELSE IF n.v.cls = "none" THEN ValuesNone(n.p, n.a)
    ELSE
    Let(from_attribute_loose(Head(tys), n.p, n.v), LAMBDA c :
    IF ~c.ok THEN ValuesErr(c.p, n.a, c.err)
    ELSE IF ~c.some THEN ValuesNone(c.p, n.a)
    ELSE from_attributes_rest(Tail(tys), c.p, n.a, Append(acc, c.v))))

from_attributes(tys, p, a) == from_attributes_rest(tys, p, a, <<>>)

(***************************************************************************)
(* The simple loader (loader/binary/simple): its errors, and the           *)
(* Properties70 node.                                                      *)
(***************************************************************************)
\* Error::InvalidAttribute, Error::MissingNode, Error::UnexpectedNode and
\* Error::Parse of the loader; a panic stays a panic.
InvalidAttribute(name)     == Error("InvalidAttribute", name, 0, 0)
MissingNode(parent, child) == Error("MissingNode", parent, child, 0)
UnexpectedNode(name)       == Error("UnexpectedNode", name, 0, 0)
ParseError(e) == IF e.type = "Panic" THEN e ELSE Error("Parse", e, 0, 0)

\* The name of the P node.
N_P == <<80>>

\* A property map with the value v under the name k.
MapInsert(m, k, v) == {e \in m : e[1] # k} \cup {<<k, v>>}

\* Properties70::new
Properties70_new ==
    [values_empty |-> {}, values_i64 |-> {}, values_f64 |-> {},
     values_f64_2 |-> {}, values_f64_3 |-> {}, values_f64_4 |-> {},
     values_f64_4x4 |-> {}, values_string |-> {}, values_binary |-> {}]

\* The outcome of loading into a Properties70: the parser and the iterator
\* afterwards, the properties, and Ok(()) or Err(err).
PropsOk(p, a, props)     ==
    [p |-> p, a |-> a, ok |-> TRUE, err |-> NoError, props |-> props]
PropsErr(p, a, props, e) ==
    [p |-> p, a |-> a, ok |-> FALSE, err |-> e, props |-> props]

\* The k values after `first` of a P node: attrs.convert_into::<f64>() k
\* times, or for the last twelve of fifteen as three tuples of four f64;
\* either way each value is the next attribute loosely converted.
convert_into_f64s(p, a, k) == from_attributes([i \in 1..k |-> "f64"], p, a)

\* load_property_rest_f64s that takes any number of values as a matrix.
load_property_rest_f64s_any(props, p, a, name, first) ==
    Let(convert_into_f64s(p, a, a.rest_attributes), LAMBDA r :
    IF ~r.ok THEN PropsErr(r.p, r.a, props, ParseError(r.err))
    ELSE IF ~r.some THEN PropsErr(r.p, r.a, props, InvalidAttribute(N_P))
    ELSE PropsOk(r.p, r.a,
                 [props EXCEPT !.values_f64_4x4 =
                     MapInsert(@, name, <<first>> \o r.v)]))

\* load_property_rest_f64s
load_property_rest_f64s(props, p, a, name, first) ==
    IF a.rest_attributes \notin {0, 1, 2, 3, 15}
    THEN PropsErr(p, a, props, InvalidAttribute(N_P))
    ELSE
    Let(convert_into_f64s(p, a, a.rest_attributes), LAMBDA r :
    IF ~r.ok THEN PropsErr(r.p, r.a, props, ParseError(r.err))
    ELSE IF ~r.some THEN PropsErr(r.p, r.a, props, InvalidAttribute(N_P))
    ELSE PropsOk(r.p, r.a,
         CASE Len(r.v) = 0 ->
                [props EXCEPT !.values_f64 = MapInsert(@, name, first)]
           [] Len(r.v) = 1 ->
                [props EXCEPT !.values_f64_2 =
                    MapInsert(@, name, <<first>> \o r.v)]
           [] Len(r.v) = 2 ->
                [props EXCEPT !.values_f64_3 =
                    MapInsert(@, name, <<first>> \o r.v)]
           [] Len(r.v) = 3 ->
                [props EXCEPT !.values_f64_4 =
                    MapInsert(@, name, <<first>> \o r.v)]
           [] OTHER ->
                [props EXCEPT !.values_f64_4x4 =
                    MapInsert(@, name,
                       LET all == <<first>> \o r.v
                       IN  [i \in 1..4 |-> SubSeq(all, 4 * i - 3, 4 * i)])]))

\* load_property: the name and three ignored attributes, then the value.
load_property(props, p, a) ==
    Let(from_attributes(<<"String", "()", "()", "()">>, p, a), LAMBDA h :
    IF ~h.ok THEN PropsErr(h.p, h.a, props, ParseError(h.err))
    ELSE IF ~h.some THEN PropsErr(h.p, h.a, props, InvalidAttribute(N_P))
    ELSE IF h.a.rest_attributes = 0
    THEN PropsOk(h.p, h.a, [props EXCEPT !.values_empty = @ \cup {h.v[1]}])
    ELSE
    Let(next_attribute(h.p, h.a), LAMBDA n :
    IF ~n.ok THEN PropsErr(n.p, n.a, props, ParseError(n.err))
    ELSE IF n.v.cls = "none"
    THEN PropsOk(n.p, n.a, [props EXCEPT !.values_empty = @ \cup {h.v[1]}])
    ELSE IF n.v.cls = "primitive" /\ n.v.code = 89
    THEN PropsOk(n.p, n.a, [props EXCEPT !.values_i64 =
                               MapInsert(@, h.v[1], i16_as_int(n.v.val))])
    ELSE IF n.v.cls = "primitive" /\ n.v.code \in {73, 76}
    THEN PropsOk(n.p, n.a, [props EXCEPT !.values_i64 =
                               MapInsert(@, h.v[1], n.v.val)])
    ELSE IF n.v.cls = "primitive" /\ n.v.code = 70
    THEN PropsOk(n.p, n.a, [props EXCEPT !.values_f64 =
                               MapInsert(@, h.v[1], f32_as_f64(LE(n.v.val, 4)))])
    ELSE IF n.v.cls = "primitive" /\ n.v.code = 68
    THEN load_property_rest_f64s(props, n.p, n.a, h.v[1], LE(n.v.val, 8))
    ELSE IF n.v.cls = "special"
    THEN Let(SpecialAttribute_into_vec(n.p, n.v), LAMBDA vec :
         IF ~vec.ok THEN PropsErr(vec.p, n.a, props, ParseError(vec.err))
         ELSE IF n.v.code = 83 /\ from_utf8_ok(vec.v)
         THEN PropsOk(vec.p, n.a, [props EXCEPT !.values_string =
                                      MapInsert(@, h.v[1], vec.v)])
         ELSE PropsOk(vec.p, n.a, [props EXCEPT !.values_binary =
                                      MapInsert(@, h.v[1], vec.v)]))
    ELSE PropsErr(n.p, n.a, props, InvalidAttribute(N_P))))

(***************************************************************************)
(* load_property alone: a caller that reads the StartNode of one P node    *)
(* and hands its attributes to load_property.  The input is the list of    *)
(* the attributes of the node.                                             *)
(***************************************************************************)
\* The largest number of attributes after the first value of the P node.
MaxRest == 16

\* The first four attributes: four strings; three strings and nothing else;
\* an i32 where the name should be.
P70Leads == {"SSSS", "SSS", "ISSS"}

\* The first value: none, or an attribute of this type.
P70Firsts == {"none", "F64", "F32", "I16", "I32", "I64", "String", "Binary",
              "Bool", "ArrF64"}

\* The attributes after the first value: all f64, all f32, f32 and f64 in
\* turn, or f64 with an i32 as the last.
P70Patterns == {"f64", "f32", "mixed", "bad"}

P70Inputs ==
    {[lead |-> "SSSS", first |-> f, n |-> n, pattern |-> pt] :
        f \in P70Firsts \ {"none"}, n \in 0..MaxRest, pt \in P70Patterns}
    \cup {[lead |-> l, first |-> "none", n |-> 0, pattern |-> "f64"] :
            l \in P70Leads}

\* The name of the property, and the type name, label and flags.
PropName == <<110>>
PropLead(lead) ==
    CASE lead = "SSSS" -> <<AttrString(PropName), AttrString(<<116>>),
                            AttrString(<<>>), AttrString(<<65>>)>>
      [] lead = "SSS"  -> <<AttrString(PropName), AttrString(<<116>>),
                            AttrString(<<>>)>>
      [] OTHER         -> <<AttrI32(1), AttrString(<<116>>),
                            AttrString(<<>>), AttrString(<<65>>)>>

\* The bits of the f32 and of the f64 that stand at place i (0 the first
\* value): the f32 are normal numbers with distinct exponents and fractions.
F32Bits(i) == (127 + i) * 8388608 + (i % 8) * 524288 + 5
F64Bits(i) == 100 + i

\* The type of the attribute at place i >= 1 after the first value.
RestType(in, i) ==
    CASE in.pattern = "f64"   -> "F64"
      [] in.pattern = "f32"   -> "F32"
      [] in.pattern = "mixed" -> IF i % 2 = 1 THEN "F32" ELSE "F64"
      [] OTHER                -> IF i = in.n THEN "I32" ELSE "F64"

\* The attribute of type ty at place i.
PropAttr(ty, i) ==
    CASE ty = "F64"    -> AttrF64(F64Bits(i))
      [] ty = "F32"    -> AttrF32(F32Bits(i))
      [] ty = "I16"    -> AttrI16(65531)
      [] ty = "I32"    -> AttrI32(7)
      [] ty = "I64"    -> AttrI64(9)
      [] ty = "String" -> AttrString(<<115, 116>>)
      [] ty = "Binary" -> AttrBinary(<<1, 255>>)
      [] ty = "Bool"   -> AttrBool(84)
      [] OTHER         -> AttrArray(100, 1, 0, LE(1, 8))

\* The P node of an input.
PropNode(in) ==
    Node(N_P,
         PropLead(in.lead)
           \o (IF in.first = "none" THEN <<>>
               ELSE <<PropAttr(in.first, 0)>>
                      \o [i \in 1..in.n |-> PropAttr(RestType(in, i), i)]),
         <<>>, FALSE)

P70Init ==
    /\ \E in \in P70Inputs, kind \in {"basic", "seekable"} :
          /\ stream = EncFbx(7400, 7400, <<PropNode(in)>>, -1)
          /\ parser = RootParser(0, kind)
          /\ loader = [stage |-> "P70", input |-> in, called |-> FALSE,
                       props |-> Properties70_new]
    /\ views = <<>>
    /\ attrs = NoAttributes
    /\ value = NoValue
    /\ hist = NoHist
    /\ last = [op |-> "new", pre |-> parser, before |-> NoHist,
               fetched |-> NoValue, view |-> NoView,
               ok |-> TRUE, err |-> NoError, ev |-> NoEvent, ret |-> FALSE,
               arg |-> 0, size |-> 0]

\* parser.next_event(), by the caller of load_property
P70NextEvent == NextEvent /\ UNCHANGED <<stream, loader>>

\* load_property(&mut props, attrs), with the attributes of the StartNode
\* that next_event has just returned
LoadProperty ==
    /\ Alive /\ attrs.live
    /\ last.op = "next_event" /\ last.ok /\ last.ev.type = "StartNode"
    /\ \E r \in {load_property(loader.props, parser, attrs)} :
          /\ parser' = r.p
          /\ loader' = [loader EXCEPT !.props = r.props, !.called = TRUE]
          /\ last' = Called("load_property", parser, NoView, r.ok, r.err,
                            NoEvent, FALSE)
    /\ attrs' = NoAttributes
    /\ value' = NoValue
    /\ UNCHANGED <<stream, views, hist>>

P70Next == P70NextEvent \/ LoadProperty

SpecP70 == P70Init /\ [][P70Next]_vars

\* The f64 that the value at place i of the input is, as load_property
\* should store it.
ExpectedF64(in, i) ==
    IF (IF i = 0 THEN in.first ELSE RestType(in, i)) = "F32"
    THEN f32_as_f64(LE(F32Bits(i), 4))
    ELSE LE(F64Bits(i), 8)

\* load_property returned, for a P node with a name and three more
\* attributes before its values.
PropertyLoaded ==
    /\ loader.stage = "P70" /\ loader.called
    /\ last.op = "load_property"
    /\ loader.input.lead = "SSSS"

\* The values after the first are all floating-point numbers.
RestAreFloats == loader.input.pattern # "bad" \/ loader.input.n = 0

\* The properties with the value v in the slot `slot` under the name of the
\* P node, and nothing else.
OnlySlot(slot, v) == [Properties70_new EXCEPT ![slot] = {<<PropName, v>>}]

\* C21: a P node whose first value is an f64, with n floating-point
\* attributes after it: n = 0 stores the value in the f64 slot, 1 in the
\* f64x2 slot, 2 in f64x3, 3 in f64x4 and 15 in f64x4x4 as four rows of
\* four, all values in the order of the attributes; any other n is an
\* InvalidAttribute error and no slot is written.
C21_SlotByCount ==
    (PropertyLoaded /\ loader.input.first = "F64" /\ RestAreFloats)
    => LET in == loader.input
           vs == [i \in 1..(in.n + 1) |-> ExpectedF64(in, i - 1)]
       IN  CASE in.n = 0 ->
                  last.ok /\ loader.props = OnlySlot("values_f64", vs[1])
             [] in.n = 1 ->
                  last.ok /\ loader.props = OnlySlot("values_f64_2", vs)
             [] in.n = 2 ->
                  last.ok /\ loader.props = OnlySlot("values_f64_3", vs)
             [] in.n = 3 ->
                  last.ok /\ loader.props = OnlySlot("values_f64_4", vs)
             [] in.n = 15 ->
                  last.ok /\ loader.props =
                     OnlySlot("values_f64_4x4",
                              <<SubSeq(vs, 1, 4), SubSeq(vs, 5, 8),
                                SubSeq(vs, 9, 12), SubSeq(vs, 13, 16)>>)
             [] OTHER ->
                  /\ ~last.ok /\ last.err = InvalidAttribute(N_P)
                  /\ loader.props = Properties70_new

\* C21 witness: sixteen values, f64 and f32 in turn after the first, stored
\* as four rows of four.
C21_Witness ==
    /\ PropertyLoaded /\ loader.input.first = "F64"
    /\ loader.input.n = 15 /\ loader.input.pattern = "mixed"
    /\ last.ok
    /\ \E e \in loader.props.values_f64_4x4 :
          /\ e[2][1][1] = LE(F64Bits(0), 8)
          /\ e[2][4][4] = f32_as_f64(LE(F32Bits(15), 4))

\* C21 witness of the other branch: five values are refused.
C21_WitnessRefused ==
    /\ PropertyLoaded /\ loader.input.first = "F64"
    /\ loader.input.n = 4 /\ RestAreFloats
    /\ ~last.ok /\ loader.props = Properties70_new

\* C22: a P node whose first value is an f32 is loaded as one whose first
\* value is an f64 is: with two floating-point attributes after it the
\* three values are stored in the f64x3 slot.
C22_F32StartsAccumulator ==
    (PropertyLoaded /\ loader.input.first = "F32" /\ RestAreFloats
       /\ loader.input.n = 2)
    => /\ last.ok
       /\ loader.props =
            OnlySlot("values_f64_3",
                     [i \in 1..3 |-> ExpectedF64(loader.input, i - 1)])

\* What load_property does with a first value of type f32: it stores the
\* value alone in the f64 slot and returns Ok, however many attributes
\* follow.
C22_F32StoredAlone ==
    (PropertyLoaded /\ loader.input.first = "F32")
    => /\ last.ok
       /\ loader.props = OnlySlot("values_f64", ExpectedF64(loader.input, 0))

(***************************************************************************)
(* The conversion of an array attribute into a vector of triples alone: a  *)
(* caller that reads the StartNode of a node with one f32 or f64 array     *)
(* and converts its attributes.                                            *)
(***************************************************************************)
\* The largest number of elements of the array.
MaxElems == 7

\* The array: its type code (b'f' or b'd') and length; and the vector asked
\* for.
Vec3Inputs ==
    {[code |-> c, n |-> n, target |-> t] :
        c \in {102, 100}, n \in 0..MaxElems,
        t \in {"Vec<[f32; 3]>", "Vec<[f64; 3]>"}}

\* The element at place i of an array, as an f32 and as the f64 of the same
\* value.
ElemF32(i) == LE(F32Bits(i), 4)
ElemF64(i) == f32_as_f64(ElemF32(i))

N_Vertices == <<86>>

Vec3Node(in) ==
    Node(N_Vertices,
         <<AttrArray(in.code, in.n, 0,
                     Flatten([i \in 1..in.n |->
                                IF in.code = 102 THEN ElemF32(i)
                                ELSE ElemF64(i)]))>>,
         <<>>, FALSE)

Vec3Init ==
    /\ \E in \in Vec3Inputs, kind \in {"basic", "seekable"} :
          /\ stream = EncFbx(7400, 7400, <<Vec3Node(in)>>, -1)
          /\ parser = RootParser(0, kind)
          /\ loader = [stage |-> "Vec3", input |-> in, called |-> FALSE,
                       some |-> FALSE, v |-> <<>>]
    /\ views = <<>>
    /\ attrs = NoAttributes
    /\ value = NoValue
    /\ hist = NoHist
    /\ last = [op |-> "new", pre |-> parser, before |-> NoHist,
               fetched |-> NoValue, view |-> NoView,
               ok |-> TRUE, err |-> NoError, ev |-> NoEvent, ret |-> FALSE,
               arg |-> 0, size |-> 0]

\* parser.next_event(), by the caller of the conversion
Vec3NextEvent == NextEvent /\ UNCHANGED <<stream, loader>>

\* <Vec<[T; 3]>>::from_attributes(&mut attrs), with the attributes of the
\* StartNode that next_event has just returned
ConvertVec3 ==
    /\ Alive /\ attrs.live
    /\ last.op = "next_event" /\ last.ok /\ last.ev.type = "StartNode"
    /\ \E r \in {from_attributes(<<loader.input.target>>, parser, attrs)} :
          /\ parser' = r.p
          /\ attrs' = r.a
          /\ loader' = [loader EXCEPT !.called = TRUE, !.some = r.some,
                                      !.v = IF r.some THEN r.v[1] ELSE <<>>]
          /\ last' = Called("from_attributes", parser, NoView, r.ok, r.err,
                            NoEvent, FALSE)
    /\ value' = NoValue
    /\ UNCHANGED <<stream, views, hist>>

Vec3Next == Vec3NextEvent \/ ConvertVec3

SpecVec3 == Vec3Init /\ [][Vec3Next]_vars

\* The element at place i of the array, as a component of the vector.
ExpectedComponent(in, i) ==
    IF in.target = "Vec<[f32; 3]>" THEN ElemF32(i) ELSE ElemF64(i)

\* The triples the first 3 * floor(n / 3) elements make, in order.
ExpectedVec3(in) ==
    [k \in 1..(in.n \div 3) |->
        <<ExpectedComponent(in, 3 * k - 2), ExpectedComponent(in, 3 * k - 1),
          ExpectedComponent(in, 3 * k)>>]

\* The conversion has just returned.
Vec3Converted ==
    loader.stage = "Vec3" /\ loader.called /\ last.op = "from_attributes"

\* C25: the conversion of an f32 or f64 array of n elements into a vector
\* of triples succeeds and gives floor(n / 3) triples that hold the first
\* 3 * floor(n / 3) elements in order, whether or not 3 divides n.
C25_Vec3FloorThirds ==
    Vec3Converted
    => last.ok /\ loader.some /\ loader.v = ExpectedVec3(loader.input)

\* What the conversion does: an array of the element type of the vector is
\* converted by array_attr_f32_into_vec3 or array_attr_f64_into_vec3, whose
\* assertion fails as soon as there is one triple to read; an array of the
\* other floating-point type is converted as C25 says.
C25_SameTypePanics ==
    Vec3Converted
    => IF (loader.input.code = 102) = (loader.input.target = "Vec<[f32; 3]>")
          /\ loader.input.n >= 3
       THEN ~last.ok /\ parser.panic # "" /\ ~loader.some
       ELSE last.ok /\ loader.some /\ loader.v = ExpectedVec3(loader.input)

(***************************************************************************)
(* The names of the nodes the loader knows, as the bytes of the stream.    *)
(***************************************************************************)
N_FBXHeaderExtension ==
    <<70, 66, 88, 72, 101, 97, 100, 101, 114, 69, 120, 116, 101, 110, 115,
      105, 111, 110>>
N_FileId == <<70, 105, 108, 101, 73, 100>>
N_CreationTime == <<67, 114, 101, 97, 116, 105, 111, 110, 84, 105, 109, 101>>
N_Creator == <<67, 114, 101, 97, 116, 111, 114>>
N_GlobalSettings ==
    <<71, 108, 111, 98, 97, 108, 83, 101, 116, 116, 105, 110, 103, 115>>
N_Documents == <<68, 111, 99, 117, 109, 101, 110, 116, 115>>
N_References == <<82, 101, 102, 101, 114, 101, 110, 99, 101, 115>>
N_Definitions == <<68, 101, 102, 105, 110, 105, 116, 105, 111, 110, 115>>
N_Objects == <<79, 98, 106, 101, 99, 116, 115>>
N_Connections == <<67, 111, 110, 110, 101, 99, 116, 105, 111, 110, 115>>
N_Takes == <<84, 97, 107, 101, 115>>
N_FBXHeaderVersion ==
    <<70, 66, 88, 72, 101, 97, 100, 101, 114, 86, 101, 114, 115, 105, 111,
      110>>
N_FBXVersion == <<70, 66, 88, 86, 101, 114, 115, 105, 111, 110>>
N_EncryptionType ==
    <<69, 110, 99, 114, 121, 112, 116, 105, 111, 110, 84, 121, 112, 101>>
N_CreationTimeStamp ==
    <<67, 114, 101, 97, 116, 105, 111, 110, 84, 105, 109, 101, 83, 116, 97,
      109, 112>>
N_SceneInfo == <<83, 99, 101, 110, 101, 73, 110, 102, 111>>
N_Version == <<86, 101, 114, 115, 105, 111, 110>>
N_Year == <<89, 101, 97, 114>>
N_Month == <<77, 111, 110, 116, 104>>
N_Day == <<68, 97, 121>>
N_Hour == <<72, 111, 117, 114>>
N_Minute == <<77, 105, 110, 117, 116, 101>>
N_Second == <<83, 101, 99, 111, 110, 100>>
N_Millisecond == <<77, 105, 108, 108, 105, 115, 101, 99, 111, 110, 100>>
N_Type == <<84, 121, 112, 101>>
N_MetaData == <<77, 101, 116, 97, 68, 97, 116, 97>>
N_Properties70 == <<80, 114, 111, 112, 101, 114, 116, 105, 101, 115, 55, 48>>
N_Title == <<84, 105, 116, 108, 101>>
N_Subject == <<83, 117, 98, 106, 101, 99, 116>>
N_Author == <<65, 117, 116, 104, 111, 114>>
N_Keywords == <<75, 101, 121, 119, 111, 114, 100, 115>>
N_Revision == <<82, 101, 118, 105, 115, 105, 111, 110>>
N_Comment == <<67, 111, 109, 109, 101, 110, 116>>
N_Count == <<67, 111, 117, 110, 116>>
N_ObjectType == <<79, 98, 106, 101, 99, 116, 84, 121, 112, 101>>
N_PropertyTemplate ==
    <<80, 114, 111, 112, 101, 114, 116, 121, 84, 101, 109, 112, 108, 97,
      116, 101>>
N_C == <<67>>
N_Current == <<67, 117, 114, 114, 101, 110, 116>>
N_Take == <<84, 97, 107, 101>>
N_FileName == <<70, 105, 108, 101, 78, 97, 109, 101>>
N_LocalTime == <<76, 111, 99, 97, 108, 84, 105, 109, 101>>
N_ReferenceTime ==
    <<82, 101, 102, 101, 114, 101, 110, 99, 101, 84, 105, 109, 101>>
N_UserData == <<85, 115, 101, 114, 68, 97, 116, 97>>
N_Indexes == <<73, 110, 100, 101, 120, 101, 115>>
N_Weights == <<87, 101, 105, 103, 104, 116, 115>>
N_Transform == <<84, 114, 97, 110, 115, 102, 111, 114, 109>>
N_TransformLink ==
    <<84, 114, 97, 110, 115, 102, 111, 114, 109, 76, 105, 110, 107>>
N_Deformer == <<68, 101, 102, 111, 114, 109, 101, 114>>
N_OO == <<79, 79>>
N_OP == <<79, 80>>
N_PO == <<80, 79>>
N_PP == <<80, 80>>

(***************************************************************************)
(* The macros of the loaders (fbx7400/mod.rs) and what the loaders share.  *)
(***************************************************************************)
\* Error::Inconsistent(msg): a cross-field check of an object failed.
Inconsistent(msg) == Error("Inconsistent", msg, 0, 0)

\* One arm of a child_attr_loader! table: the name of the child and the
\* types of its content (none for a variant without content); and what the
\* loader does with the child: sub names the loader of its subtree, "" for
\* parser.skip_current_node().
ArmSub(name, tys, sub) == [name |-> name, tys |-> tys, sub |-> sub]
Arm(name, tys) == ArmSub(name, tys, "")

\* The arm of the table for the name, if it has one.
ArmOf(table, name) ==
    IF \E i \in 1..Len(table) : table[i].name = name
    THEN Some(table[CHOOSE i \in 1..Len(table) : table[i].name = name])
    ELSE None

\* The `let mut x = None;` of a loader, one for each arm of its table.
NoneLoaded(table) == [n \in {table[i].name : i \in 1..Len(table)} |-> None]

\* The load function child_attr_loader! makes of a table: the content of
\* the child converted from its attributes, InvalidAttribute(name) when the
\* conversion gives None, UnexpectedNode(name) for a name not in the table.
child_attr_loader(table, name, p, a) ==
    Let(ArmOf(table, name), LAMBDA arm :
    IF ~arm.some THEN ValuesErr(p, a, UnexpectedNode(name))
    ELSE IF arm.v.tys = <<>> THEN Values(p, a, <<>>)
    ELSE
    Let(from_attributes(arm.v.tys, p, a), LAMBDA r :
    IF ~r.ok THEN ValuesErr(r.p, r.a, ParseError(r.err))
    ELSE IF ~r.some THEN ValuesErr(r.p, r.a, InvalidAttribute(name))
    ELSE r))

\* What try_get_node_attrs! finds: a child (its name and attributes, for
\* $load_attr to load), or the end of the node (break).
ChildNode(p, name, a) ==
    [p |-> p, ok |-> TRUE, err |-> NoError, brk |-> FALSE, name |-> name,
     a |-> a]
ChildBreak(p) ==
    [p |-> p, ok |-> TRUE, err |-> NoError, brk |-> TRUE, name |-> <<>>,
     a |-> NoAttributes]
ChildErr(p, e) ==
    [p |-> p, ok |-> FALSE, err |-> e, brk |-> FALSE, name |-> <<>>,
     a |-> NoAttributes]

\* try_get_node_attrs! up to the call of $load_attr, on the subtree parser
\* of depth initial_depth.
try_get_node_attrs(p, initial_depth) ==
    Let(SubtreeParser_next_event(p, initial_depth), LAMBDA e :
    IF ~e.ok THEN ChildErr(e.p, ParseError(e.err))
    ELSE IF e.v.type = "StartNode"
    THEN ChildNode(e.p, e.p.recent_node_name.v, new_attributes(e.v.header))
    ELSE IF e.v.type = "EndNode" THEN ChildBreak(e.p)
    ELSE ChildErr([e.p EXCEPT !.panic = "Unexpected node event"],
                  Error("Panic", 0, 0, 0)))

\* ensure_nodes_exist that finds every node.
ensure_nodes_exist_found(p, loaded, names, parent, named) == Ok(p, loaded)

\* ensure_node_exists! for each of the names in turn: the error for the
\* first one that was not loaded.
RECURSIVE ensure_nodes_exist(_, _, _, _, _)
ensure_nodes_exist(p, loaded, names, parent, named) ==
    IF names = <<>> THEN Ok(p, loaded)
    ELSE IF ~loaded[Head(names)].some
    THEN Err(p, MissingNode(parent, IF named THEN Head(names) ELSE <<>>))
    ELSE ensure_nodes_exist(p, loaded, Tail(names), parent, named)

\* separate_name_class: the name before and the class after the first
\* "\u{0}\u{1}".
separate_name_class(name_class) ==
    IF \E i \in 1..(Len(name_class) - 1) :
          name_class[i] = 0 /\ name_class[i + 1] = 1
    THEN LET sep_pos == CHOOSE i \in 1..(Len(name_class) - 1) :
                 /\ name_class[i] = 0 /\ name_class[i + 1] = 1
                 /\ \A j \in 1..(i - 1) :
                       ~(name_class[j] = 0 /\ name_class[j + 1] = 1)
         IN  Some(<<SubSeq(name_class, 1, sep_pos - 1),
                    SubSeq(name_class, sep_pos + 2, Len(name_class))>>)
    ELSE None

\* arr16_to_mat4x4: the rows of four of an array of sixteen, None for
\* another length.
arr16_to_mat4x4(arr) ==
    IF Len(arr) = 16
    THEN Some([i \in 1..4 |-> SubSeq(arr, 4 * i - 3, 4 * i)])
    ELSE None

(***************************************************************************)
(* The Cluster object (fbx7400/objects/cluster.rs).                        *)
(***************************************************************************)
ClusterChildAttrs ==
    <<Arm(N_Version, <<"i32">>),
      Arm(N_UserData, <<"String", "String">>),
      Arm(N_Indexes, <<"Vec<i32>">>),
      Arm(N_Weights, <<"Vec<f64>">>),
      Arm(N_Transform, <<"Vec<f64>">>),
      Arm(N_TransformLink, <<"Vec<f64>">>)>>

\* node_msg!(Deformer, SubDeformer, Cluster)
ClusterNodeMsg == "Deformer (class=SubDeformer, subclass=Cluster)"

\* The loop of Cluster::load: each child loaded from its attributes and
\* skipped, until the node ends.
RECURSIVE Cluster_load_children(_, _, _)
Cluster_load_children(p, initial_depth, loaded) ==
    Let(try_get_node_attrs(p, initial_depth), LAMBDA t :
    IF ~t.ok THEN Err(t.p, t.err)
    ELSE IF t.brk THEN Ok(t.p, loaded)
    ELSE
    Let(child_attr_loader(ClusterChildAttrs, t.name, t.p, t.a), LAMBDA c :
    IF ~c.ok THEN Err(c.p, c.err)
    ELSE IF t.name \in {N_Transform, N_TransformLink}
            /\ ~arr16_to_mat4x4(c.v[1]).some
    THEN Err(c.p, InvalidAttribute(t.name))
    ELSE
    Let(SubtreeParser_skip_current_node(c.p, initial_depth), LAMBDA s :
    IF ~s.ok THEN Err(s.p, ParseError(s.err))
    ELSE Cluster_load_children(
             s.p, initial_depth,
             [loaded EXCEPT ![t.name] =
                 IF t.name \in {N_Transform, N_TransformLink}
                 THEN arr16_to_mat4x4(c.v[1])
                 ELSE IF t.name = N_UserData THEN Some(c.v)
                 ELSE Some(c.v[1])]))))

\* The Cluster built of the children that were loaded.
ClusterOf(obj_props, loaded) ==
    [id |-> obj_props.id,
     version |-> loaded[N_Version].v,
     user_data |-> loaded[N_UserData].v,
     indexes_and_weights |->
        IF loaded[N_Indexes].some
        THEN Some(<<loaded[N_Indexes].v, loaded[N_Weights].v>>)
        ELSE None,
     transform |-> loaded[N_Transform].v,
     transform_link |-> loaded[N_TransformLink].v]

\* The required children of a Cluster, in the order Cluster::load asks for
\* them.
ClusterRequired == <<N_Version, N_UserData, N_Transform, N_TransformLink>>

\* Cluster::load that does not compare Indexes and Weights.
Cluster_load_unchecked(p, initial_depth, obj_props) ==
    Let(Cluster_load_children(p, initial_depth, NoneLoaded(ClusterChildAttrs)),
        LAMBDA r :
    IF ~r.ok THEN r
    ELSE
    Let(ensure_nodes_exist(r.p, r.v, ClusterRequired, ClusterNodeMsg, FALSE),
        LAMBDA n :
    IF ~n.ok THEN n
    ELSE Ok(n.p, ClusterOf(obj_props, r.v))))

\* Cluster::load, on the subtree parser of depth initial_depth
Cluster_load(p, initial_depth, obj_props) ==
    Let(Cluster_load_children(p, initial_depth, NoneLoaded(ClusterChildAttrs)),
        LAMBDA r :
    IF ~r.ok THEN r
    ELSE IF r.v[N_Indexes].some /\ r.v[N_Weights].some
            /\ Len(r.v[N_Indexes].v) # Len(r.v[N_Weights].v)
    THEN Err(r.p, Inconsistent(
                 "Lengths differs between Indexes and Weights"))
    ELSE IF r.v[N_Indexes].some /\ ~r.v[N_Weights].some
    THEN Err(r.p, Inconsistent("Indexes found but Weights not found"))
    ELSE IF ~r.v[N_Indexes].some /\ r.v[N_Weights].some
    THEN Err(r.p, Inconsistent("Indexes not found but Weights found"))
    ELSE
    Let(ensure_nodes_exist(r.p, r.v, ClusterRequired, ClusterNodeMsg, FALSE),
        LAMBDA n :
    IF ~n.ok THEN n
    ELSE Ok(n.p, ClusterOf(obj_props, r.v))))

(***************************************************************************)
(* Cluster::load alone: a caller that reads up to the StartNode of a       *)
(* Deformer node and loads it as a Cluster.                                *)
(***************************************************************************)
\* The largest number of elements of Indexes and of Weights.
MaxWeights == 2

\* The lengths of a Transform child: none, one short of a matrix, a matrix.
TransformLens == {-1, 15, 16}

\* The Deformer node: the lengths of Indexes and Weights (-1: the child
\* is absent), the array type of Weights (d or f), whether Version is
\* there, and the length of Transform.
ClusterInputs ==
    {[indexes |-> i, weights |-> w, wcode |-> c, version |-> v,
      transform |-> t] :
        i \in -1..MaxWeights, w \in -1..MaxWeights, c \in {100, 102},
        v \in BOOLEAN, t \in TransformLens}

\* An array child of n elements (absent when n < 0).
ArrayChild(name, code, n) ==
    IF n < 0 THEN <<>>
    ELSE <<Node(name,
                <<AttrArray(code, n, 0,
                      Flatten([i \in 1..n |->
                          CASE code = 105 -> LE(i, 4)
                            [] code = 102 -> ElemF32(i)
                            [] OTHER     -> ElemF64(i)]))>>,
                <<>>, FALSE)>>

\* "Cluster"
ClusterSubclass == <<67, 108, 117, 115, 116, 101, 114>>

ClusterNode(in) ==
    Node(N_Deformer,
         <<AttrI64(7), AttrString(<<99, 0, 1>> \o N_Deformer),
           AttrString(ClusterSubclass)>>,
         (IF in.version THEN <<Node(N_Version, <<AttrI32(100)>>, <<>>, FALSE)>>
          ELSE <<>>)
           \o <<Node(N_UserData, <<AttrString(<<>>), AttrString(<<>>)>>,
                     <<>>, FALSE)>>
           \o ArrayChild(N_Indexes, 105, in.indexes)
           \o ArrayChild(N_Weights, in.wcode, in.weights)
           \o ArrayChild(N_Transform, 100, in.transform)
           \o ArrayChild(N_TransformLink, 100, 16),
         TRUE)

ClusterInit ==
    /\ \E in \in ClusterInputs, kind \in {"basic", "seekable"} :
          /\ stream = EncFbx(7400, 7400, <<ClusterNode(in)>>, -1)
          /\ parser = RootParser(0, kind)
          /\ loader = [stage |-> "Cluster", input |-> in, called |-> FALSE,
                       cluster |-> None]
    /\ views = <<>>
    /\ attrs = NoAttributes
    /\ value = NoValue
    /\ hist = NoHist
    /\ last = [op |-> "new", pre |-> parser, before |-> NoHist,
               fetched |-> NoValue, view |-> NoView,
               ok |-> TRUE, err |-> NoError, ev |-> NoEvent, ret |-> FALSE,
               arg |-> 0, size |-> 0]

\* parser.next_event(), by the caller, up to the StartNode of the Deformer
ClusterNextEvent ==
    /\ ~loader.called
    /\ ~(last.op = "next_event" /\ last.ev.type = "StartNode")
    /\ NextEvent
    /\ UNCHANGED <<stream, loader>>

\* Cluster::load(parser.subtree_parser(), &obj_props), at the StartNode that
\* next_event has just returned
ClusterLoad ==
    /\ Alive /\ ~loader.called
    /\ last.op = "next_event" /\ last.ok /\ last.ev.type = "StartNode"
    /\ \E r \in {Cluster_load(parser, SubtreeParser_new(parser), [id |-> 7])} :
          /\ parser' = r.p
          /\ loader' = [loader EXCEPT !.called = TRUE,
                           !.cluster = IF r.ok THEN Some(r.v) ELSE None]
          /\ last' = Called("Cluster::load", parser, NoView, r.ok, r.err,
                            NoEvent, FALSE)
    /\ attrs' = NoAttributes
    /\ value' = NoValue
    /\ UNCHANGED <<stream, views, hist>>

ClusterNext == ClusterNextEvent \/ ClusterLoad

SpecCluster == ClusterInit /\ [][ClusterNext]_vars

\* Cluster::load has just returned.
ClusterLoaded ==
    loader.stage = "Cluster" /\ loader.called /\ last.op = "Cluster::load"

\* Indexes and Weights of the node are both absent, or both present with as
\* many elements.
IndexesMatchWeights(in) == in.indexes = in.weights

\* Every child of the node loads: the Transform child, if there, has
\* sixteen elements.
ChildrenLoad(in) == in.transform # 15

C28_WitnessLoaded ==
    /\ ClusterLoaded
    /\ loader.input.indexes = 2 /\ loader.input.weights = 2
    /\ last.ok /\ loader.cluster.v.indexes_and_weights.some

(***************************************************************************)
(* The loaders of the sections of an FBX 7.4 document                      *)
(* (loader/binary/simple/fbx7400).  A loader is given a subtree parser:    *)
(* the parser p and the depth initial_depth of the subtree.  Of the        *)
(* children of a node that may repeat, the last one loaded is kept.        *)
(***************************************************************************)
\* A `loop` of a loader after some of its iterations: the parser, what is
\* loaded so far, and whether the loop has ended (by break or by return);
\* when it has, the record is the outcome Ok(v) or Err(err) of the loop.
Going(p, v)  == [p |-> p, ok |-> TRUE, err |-> NoError, v |-> v, done |-> FALSE]
Broke(p, v)  == [p |-> p, ok |-> TRUE, err |-> NoError, v |-> v, done |-> TRUE]
Failed(p, e) == [p |-> p, ok |-> FALSE, err |-> e, v |-> 0, done |-> TRUE]

\* One iteration of the loop of load_properties70: the child is a P node,
\* loaded by load_property and skipped.
load_properties70_step(st, initial_depth) ==
    Let(try_get_node_attrs(st.p, initial_depth), LAMBDA t :
    IF ~t.ok THEN Failed(t.p, t.err)
    ELSE IF t.brk THEN Broke(t.p, st.v)
    ELSE IF t.name # N_P THEN Failed(t.p, UnexpectedNode(t.name))
    ELSE
    Let(load_property(st.v, t.p, t.a), LAMBDA l :
    IF ~l.ok THEN Failed(l.p, l.err)
    ELSE
    Let(SubtreeParser_skip_current_node(l.p, initial_depth), LAMBDA s :
    IF ~s.ok THEN Failed(s.p, ParseError(s.err))
    ELSE Going(s.p, l.props))))

RECURSIVE load_properties70_loop(_, _)
load_properties70_loop(st, initial_depth) ==
    IF st.done THEN st
    ELSE Let(load_properties70_step(st, initial_depth), LAMBDA n :
             load_properties70_loop(n, initial_depth))

\* load_properties70
load_properties70(p, initial_depth) ==
    load_properties70_loop(Going(p, Properties70_new), initial_depth)

\* One iteration of the loop of load_property_template: the child is a
\* Properties70 node, loaded on its subtree parser.
load_property_template_step(st, initial_depth) ==
    Let(try_get_node_attrs(st.p, initial_depth), LAMBDA t :
    IF ~t.ok THEN Failed(t.p, t.err)
    ELSE IF t.brk THEN Broke(t.p, st.v)
    ELSE IF t.name # N_Properties70 THEN Failed(t.p, UnexpectedNode(t.name))
    ELSE
    Let(load_properties70(t.p, SubtreeParser_new(t.p)), LAMBDA l :
    IF ~l.ok THEN Failed(l.p, l.err)
    ELSE Going(l.p, Some(l.v))))

RECURSIVE load_property_template_loop(_, _)
load_property_template_loop(st, initial_depth) ==
    IF st.done THEN st
    ELSE Let(load_property_template_step(st, initial_depth), LAMBDA n :
             load_property_template_loop(n, initial_depth))

\* load_property_template: the last Properties70 child is the template, and
\* there must be one.
load_property_template(p, initial_depth) ==
    Let(load_property_template_loop(Going(p, None), initial_depth), LAMBDA r :
    IF ~r.ok THEN r
    ELSE IF r.v.some THEN Ok(r.p, r.v.v)
    ELSE Err(r.p, MissingNode("PropertyTemplate", N_Properties70)))

\* A loader with a child table: the table, the required children in the
\* order they are asked for, and the MissingNode it fails with: its parent,
\* and whether it names the child.
TableLoader(table, required, parent, named) ==
    [table |-> table, required |-> required, parent |-> parent,
     named |-> named]

\* FbxHeaderExtension::load and FbxHeaderExtensionChildAttrs
FbxHeaderExtension_load ==
    TableLoader(
      <<Arm(N_FBXHeaderVersion, <<"i32">>),
        Arm(N_FBXVersion, <<"i32">>),
        Arm(N_EncryptionType, <<"i32">>),
        ArmSub(N_CreationTimeStamp, <<>>, "CreationTimeStamp"),
        Arm(N_Creator, <<"String">>),
        ArmSub(N_SceneInfo, <<"String", "String">>, "SceneInfo")>>,
      <<N_FBXHeaderVersion, N_FBXVersion, N_EncryptionType,
        N_CreationTimeStamp, N_Creator, N_SceneInfo>>,
      "FbxHeaderExtension", FALSE)

\* CreationTimeStamp::load and CreationTimeStampChildAttrs
CreationTimeStamp_load ==
    TableLoader(
      <<Arm(N_Version, <<"i32">>), Arm(N_Year, <<"i32">>),
        Arm(N_Month, <<"i32">>), Arm(N_Day, <<"i32">>),
        Arm(N_Hour, <<"i32">>), Arm(N_Minute, <<"i32">>),
        Arm(N_Second, <<"i32">>), Arm(N_Millisecond, <<"i32">>)>>,
      <<N_Version, N_Year, N_Month, N_Day, N_Hour, N_Minute, N_Second,
        N_Millisecond>>,
      "CreationTimeStamp", FALSE)

\* SceneInfo::load and SceneInfoChildAttrs
SceneInfo_load ==
    TableLoader(
      <<Arm(N_Type, <<"String">>), Arm(N_Version, <<"i32">>),
        ArmSub(N_MetaData, <<>>, "MetaData"),
        ArmSub(N_Properties70, <<>>, "Properties70")>>,
      <<N_Type, N_Version, N_MetaData, N_Properties70>>,
      "SceneInfo", FALSE)

\* MetaData::load and MetaDataChildAttrs
MetaData_load ==
    TableLoader(
      <<Arm(N_Version, <<"i32">>), Arm(N_Title, <<"String">>),
        Arm(N_Subject, <<"String">>), Arm(N_Author, <<"String">>),
        Arm(N_Keywords, <<"String">>), Arm(N_Revision, <<"String">>),
        Arm(N_Comment, <<"String">>)>>,
      <<N_Version, N_Title, N_Subject, N_Author, N_Keywords, N_Revision,
        N_Comment>>,
      "MetaData", FALSE)

\* GlobalSettings::load and GlobalSettingsChildAttrs::load
GlobalSettings_load ==
    TableLoader(
      <<Arm(N_Version, <<"i32">>),
        ArmSub(N_Properties70, <<>>, "Properties70")>>,
      <<N_Version, N_Properties70>>,
      "Definitions", FALSE)

\* Definitions::load and DefinitionsChildAttrs
Definitions_load ==
    TableLoader(
      <<Arm(N_Count, <<"i32">>), Arm(N_Version, <<"i32">>),
        ArmSub(N_ObjectType, <<"String">>, "ObjectType")>>,
      <<N_Version, N_Count>>,
      "Definitions", TRUE)

\* ObjectType::load and ObjectTypeChildAttrs
ObjectType_load ==
    TableLoader(
      <<Arm(N_Count, <<"i32">>),
        ArmSub(N_PropertyTemplate, <<"String">>, "PropertyTemplate")>>,
      <<N_Count>>,
      "ObjectType", TRUE)

\* Takes::load and TakesChildAttrs
Takes_load ==
    TableLoader(
      <<Arm(N_Current, <<"String">>), ArmSub(N_Take, <<"String">>, "Take")>>,
      <<N_Current>>,
      "Current", FALSE)

\* Take::load and TakeChildAttrs
Take_load ==
    TableLoader(
      <<Arm(N_FileName, <<"String">>), Arm(N_LocalTime, <<"i64", "i64">>),
        Arm(N_ReferenceTime, <<"i64", "i64">>)>>,
      <<N_FileName, N_LocalTime, N_ReferenceTime>>,
      "Take", FALSE)

\* The loader of the name.
TableLoaderOf(sub) ==
    CASE sub = "FbxHeaderExtension" -> FbxHeaderExtension_load
      [] sub = "CreationTimeStamp"  -> CreationTimeStamp_load
      [] sub = "SceneInfo"          -> SceneInfo_load
      [] sub = "MetaData"           -> MetaData_load
      [] sub = "GlobalSettings"     -> GlobalSettings_load
      [] sub = "Definitions"        -> Definitions_load
      [] sub = "ObjectType"         -> ObjectType_load
      [] sub = "Takes"              -> Takes_load
      [] sub = "Take"               -> Take_load

\* The loop of a loader with a child table: each child loaded from its
\* attributes, then skipped or loaded by the loader of its subtree; and the
\* load of a node: the loop, then the required children.  SceneInfo::load
\* separates the name and the class of its first attribute before the loop.
RECURSIVE load_children_step(_, _, _), load_children(_, _, _),
          load_subtree(_, _, _, _)
load_children_step(sub, st, initial_depth) ==
    Let(try_get_node_attrs(st.p, initial_depth), LAMBDA t :
    IF ~t.ok THEN Failed(t.p, t.err)
    ELSE IF t.brk THEN Broke(t.p, st.v)
    ELSE
    Let(child_attr_loader(TableLoaderOf(sub).table, t.name, t.p, t.a),
        LAMBDA c :
    IF ~c.ok THEN Failed(c.p, c.err)
    ELSE
    Let(IF ArmOf(TableLoaderOf(sub).table, t.name).v.sub = ""
        THEN Let(SubtreeParser_skip_current_node(c.p, initial_depth),
                 LAMBDA s :
                 IF ~s.ok THEN Err(s.p, ParseError(s.err)) ELSE Ok(s.p, c.v))
        ELSE load_subtree(ArmOf(TableLoaderOf(sub).table, t.name).v.sub,
                          c.p, SubtreeParser_new(c.p), c.v),
        LAMBDA s :
    IF ~s.ok THEN Failed(s.p, s.err)
    ELSE Going(s.p, [st.v EXCEPT ![t.name] = Some(s.v)]))))
load_children(sub, st, initial_depth) ==
    IF st.done THEN st
    ELSE Let(load_children_step(sub, st, initial_depth), LAMBDA n :
             load_children(sub, n, initial_depth))
load_subtree(sub, p, initial_depth, content) ==
    CASE sub = "Properties70" -> load_properties70(p, initial_depth)
      [] sub = "PropertyTemplate" -> load_property_template(p, initial_depth)
      [] sub = "SceneInfo" /\ ~separate_name_class(content[1]).some ->
            Err(p, InvalidAttribute(N_SceneInfo))
      [] OTHER ->
            Let(load_children(
                    sub, Going(p, NoneLoaded(TableLoaderOf(sub).table)),
                    initial_depth),
                LAMBDA r :
            IF ~r.ok THEN r
            ELSE ensure_nodes_exist(r.p, r.v, TableLoaderOf(sub).required,
                                    TableLoaderOf(sub).parent,
                                    TableLoaderOf(sub).named))

\* The type of a connection: "OO", "OP", "PO" or "PP".
ConnectionTypes == {N_OO, N_OP, N_PO, N_PP}

\* ConnectionAttrs::load
ConnectionAttrs_load(name, p, a) ==
    IF name # N_C THEN ValuesErr(p, a, UnexpectedNode(name))
    ELSE
    Let(from_attributes(<<"String", "i64", "i64">>, p, a), LAMBDA r :
    IF ~r.ok THEN ValuesErr(r.p, r.a, ParseError(r.err))
    ELSE IF ~r.some THEN ValuesErr(r.p, r.a, InvalidAttribute(N_C))
    ELSE IF r.v[1] \notin ConnectionTypes
    THEN ValuesErr(r.p, r.a, InvalidAttribute(N_C))
    ELSE IF r.a.rest_attributes > 0
    THEN Let(from_attributes(<<"String">>, r.p, r.a), LAMBDA s :
         IF ~s.ok THEN ValuesErr(s.p, s.a, ParseError(s.err))
         ELSE IF ~s.some THEN ValuesErr(s.p, s.a, InvalidAttribute(N_C))
         ELSE Values(s.p, s.a, r.v \o s.v))
    ELSE r)

\* One iteration of the loop of Connections::load: the child is a C node,
\* loaded from its attributes and skipped by Connection::load.
Connections_load_step(st, initial_depth) ==
    Let(try_get_node_attrs(st.p, initial_depth), LAMBDA t :
    IF ~t.ok THEN Failed(t.p, t.err)
    ELSE IF t.brk THEN Broke(t.p, st.v)
    ELSE
    Let(ConnectionAttrs_load(t.name, t.p, t.a), LAMBDA c :
    IF ~c.ok THEN Failed(c.p, c.err)
    ELSE
    Let(SubtreeParser_skip_current_node(c.p, SubtreeParser_new(c.p)),
        LAMBDA s :
    IF ~s.ok THEN Failed(s.p, ParseError(s.err))
    ELSE Going(s.p, Append(st.v, c.v)))))

RECURSIVE Connections_load_loop(_, _)
Connections_load_loop(st, initial_depth) ==
    IF st.done THEN st
    ELSE Let(Connections_load_step(st, initial_depth), LAMBDA n :
             Connections_load_loop(n, initial_depth))

\* Connections::load
Connections_load(p, initial_depth) ==
    Connections_load_loop(Going(p, <<>>), initial_depth)

\* An OwnedAttribute: the variant, named by the type code, and its value.
Owned(code, val) == [code |-> code, val |-> val]

\* OwnedAttribute::load_from_parser_event: a primitive value as it is, an
\* array and a special value read to the end; a string is Ok(bytes) if it
\* is UTF-8 and Err(bytes) if not.
OwnedAttribute_load_from_parser_event(p, v) ==
    CASE v.cls = "array" ->
            Let(ArrayAttributeReader_into_vec(p, v), LAMBDA r :
            IF ~r.ok THEN r ELSE Ok(r.p, Owned(v.code, r.v)))
      [] v.cls = "special" ->
            Let(SpecialAttribute_into_vec(p, v), LAMBDA r :
            IF ~r.ok THEN r
            ELSE IF v.code = 83
            THEN Ok(r.p, Owned(v.code, [ok |-> from_utf8_ok(r.v), v |-> r.v]))
            ELSE Ok(r.p, Owned(v.code, r.v)))
      [] OTHER -> Ok(p, Owned(v.code, v.val))

\* OwnedAttribute::load_attrs_from_parser_event
RECURSIVE load_attrs_from_parser_event(_, _, _)
load_attrs_from_parser_event(p, a, result) ==
    Let(next_attribute(p, a), LAMBDA n :
    IF ~n.ok THEN Err(n.p, n.err)
    ELSE IF n.v.cls = "none" THEN Ok(n.p, result)
    ELSE
    Let(OwnedAttribute_load_from_parser_event(n.p, n.v), LAMBDA o :
    IF ~o.ok THEN Err(o.p, o.err)
    ELSE load_attrs_from_parser_event(o.p, n.a, Append(result, o.v))))

\* What the loop of GenericNode::load_from_parser holds: the nodes and the
\* footer; events records the types of the events next_event returned to
\* the call and to the calls it made.
NoNodes == [nodes |-> <<>>, footer |-> None, events |-> <<>>]

\* An iteration of the loop of GenericNode::load_from_parser that does not
\* load the children of the node: it leaves them to the loop.
GenericNode_load_step_flat(st, initial_depth) ==
    Let(SubtreeParser_next_event(st.p, initial_depth), LAMBDA e :
    IF ~e.ok THEN Failed(e.p, e.err)
    ELSE
    Let([st.v EXCEPT !.events = Append(@, e.v.type)], LAMBDA seen :
    IF e.v.type = "StartFbx" THEN Going(e.p, seen)
    ELSE IF e.v.type = "EndFbx"
    THEN Broke(e.p, [seen EXCEPT !.footer = IF e.v.footer.ok
                                           THEN Some(e.v.footer) ELSE None])
    ELSE IF e.v.type = "EndNode" THEN Broke(e.p, seen)
    ELSE
    Let(load_attrs_from_parser_event(e.p, new_attributes(e.v.header), <<>>),
        LAMBDA a :
    IF ~a.ok THEN Failed(a.p, a.err)
    ELSE Going(a.p, [seen EXCEPT
                       !.nodes = Append(@, [name |-> e.p.recent_node_name.v,
                                            attributes |-> a.v,
                                            children |-> <<>>])]))))

\* GenericNode::load_from_parser on a subtree parser of the given depth (on
\* the root parser: depth 0): one iteration of its loop, the loop, and the
\* function.
RECURSIVE GenericNode_load_step(_, _), GenericNode_load_loop(_, _),
          GenericNode_load_from_parser(_, _)
GenericNode_load_step(st, initial_depth) ==
    Let(SubtreeParser_next_event(st.p, initial_depth), LAMBDA e :
    IF ~e.ok THEN Failed(e.p, e.err)
    ELSE
    Let([st.v EXCEPT !.events = Append(@, e.v.type)], LAMBDA seen :
    IF e.v.type = "StartFbx" THEN Going(e.p, seen)
    ELSE IF e.v.type = "EndFbx"
    THEN Broke(e.p, [seen EXCEPT !.footer = IF e.v.footer.ok
                                           THEN Some(e.v.footer) ELSE None])
    ELSE IF e.v.type = "EndNode" THEN Broke(e.p, seen)
    ELSE
    Let(load_attrs_from_parser_event(e.p, new_attributes(e.v.header), <<>>),
        LAMBDA a :
    IF ~a.ok THEN Failed(a.p, a.err)
    ELSE
    Let(GenericNode_load_from_parser(a.p, SubtreeParser_new(a.p)),
        LAMBDA c :
    IF ~c.ok THEN Failed(c.p, c.err)
    ELSE Going(c.p, [seen EXCEPT
                       !.nodes = Append(@, [name |-> e.p.recent_node_name.v,
                                            attributes |-> a.v,
                                            children |-> c.v.nodes]),
                       !.events = @ \o c.v.events])))))

GenericNode_load_loop(st, initial_depth) ==
    IF st.done THEN st
    ELSE Let(GenericNode_load_step(st, initial_depth), LAMBDA n :
             GenericNode_load_loop(n, initial_depth))

GenericNode_load_from_parser(p, initial_depth) ==
    GenericNode_load_loop(Going(p, NoNodes), initial_depth)

\* ObjectProperties::load: the id, the name and class, and the subclass.
ObjectProperties_load(name, p, a) ==
    Let(from_attributes(<<"i64", "String", "String">>, p, a), LAMBDA r :
    IF ~r.ok THEN ValuesErr(r.p, r.a, ParseError(r.err))
    ELSE IF ~r.some \/ ~separate_name_class(r.v[2]).some
    THEN ValuesErr(r.p, r.a, InvalidAttribute(name))
    ELSE Values(r.p, r.a,
                [id |-> r.v[1], name |-> separate_name_class(r.v[2]).v[1],
                 class |-> separate_name_class(r.v[2]).v[2],
                 subclass |-> r.v[3]]))

\* One iteration of the loop of load_objects, with an objects loader of the
\* caller that reads nothing of an object and accepts it: the properties of
\* the child, then the subtree parser of the child skipped to its end.
load_objects_step(st, initial_depth) ==
    Let(try_get_node_attrs(st.p, initial_depth), LAMBDA t :
    IF ~t.ok THEN Failed(t.p, t.err)
    ELSE IF t.brk THEN Broke(t.p, st.v)
    ELSE
    Let(ObjectProperties_load(t.name, t.p, t.a), LAMBDA c :
    IF ~c.ok THEN Failed(c.p, c.err)
    ELSE
    Let(skip_to_end(c.p, SubtreeParser_new(c.p)), LAMBDA s :
    IF ~s.ok THEN Failed(s.p, ParseError(s.err))
    ELSE Going(s.p, Append(st.v, c.v)))))

RECURSIVE load_objects_loop(_, _)
load_objects_loop(st, initial_depth) ==
    IF st.done THEN st
    ELSE Let(load_objects_step(st, initial_depth), LAMBDA n :
             load_objects_loop(n, initial_depth))

\* load_objects
load_objects(p, initial_depth) ==
    load_objects_loop(Going(p, <<>>), initial_depth)

\* NodeType::load, as a table
NodeType ==
    <<ArmSub(N_FBXHeaderExtension, <<>>, "FbxHeaderExtension"),
      Arm(N_FileId, <<"Vec<u8>">>),
      Arm(N_CreationTime, <<"String">>),
      Arm(N_Creator, <<"String">>),
      ArmSub(N_GlobalSettings, <<>>, "GlobalSettings"),
      ArmSub(N_Documents, <<>>, "Documents"),
      ArmSub(N_References, <<>>, "References"),
      ArmSub(N_Definitions, <<>>, "Definitions"),
      ArmSub(N_Objects, <<>>, "Objects"),
      ArmSub(N_Connections, <<>>, "Connections"),
      ArmSub(N_Takes, <<>>, "Takes")>>

\* The sections NodesBeforeObjects is made of, in the order they are asked
\* for.
NodesBeforeObjects ==
    <<N_FBXHeaderExtension, N_FileId, N_CreationTime, N_Creator,
      N_GlobalSettings, N_Documents, N_References, N_Definitions>>

\* The load of one section other than Objects, on parser.subtree_parser().
load_section(name, p, content) ==
    CASE name \in {N_FileId, N_CreationTime, N_Creator} ->
            Let(SubtreeParser_skip_current_node(p, SubtreeParser_new(p)),
                LAMBDA s :
            IF ~s.ok THEN Err(s.p, ParseError(s.err)) ELSE Ok(s.p, content))
      [] name \in {N_Documents, N_References} ->
            Let(GenericNode_load_from_parser(p, SubtreeParser_new(p)),
                LAMBDA g :
            IF ~g.ok THEN Err(g.p, ParseError(g.err)) ELSE Ok(g.p, g.v.nodes))
      [] name = N_Connections ->
            Connections_load(p, SubtreeParser_new(p))
      [] OTHER ->
            load_subtree(ArmOf(NodeType, name).v.sub, p, SubtreeParser_new(p),
                         content)

\* What Fbx7400::load_from_parser holds before its loop.
Fbx7400_new(version) ==
    [version |-> version, objs_loader |-> TRUE,
     sections |-> NoneLoaded(NodeType), objects_and_before |-> None,
     footer |-> None]

\* One iteration of the loop of Fbx7400::load_from_parser over the events
\* of the root parser: a section is loaded by its loader; at the first
\* Objects node the sections before it are required and taken, and the
\* objects loaded; another Objects node is passed by.
Fbx7400_load_step(st) ==
    Let(next_event(st.p), LAMBDA e :
    IF ~e.ok THEN Failed(e.p, ParseError(e.err))
    ELSE IF e.v.type \in {"StartFbx", "EndNode"}
    THEN Failed([e.p EXCEPT !.panic = "internal error: entered unreachable code"],
                Error("Panic", 0, 0, 0))
    ELSE IF e.v.type = "EndFbx"
    THEN Broke(e.p, [st.v EXCEPT !.footer = IF e.v.footer.ok
                                            THEN Some(e.v.footer) ELSE None])
    ELSE
    Let(child_attr_loader(NodeType, e.p.recent_node_name.v, e.p,
                          new_attributes(e.v.header)), LAMBDA c :
    IF ~c.ok THEN Failed(c.p, c.err)
    ELSE IF e.p.recent_node_name.v = N_Objects
    THEN IF st.v.objs_loader
         THEN Let(ensure_nodes_exist(c.p, st.v.sections, NodesBeforeObjects,
                                     "(root)", TRUE), LAMBDA n :
              IF ~n.ok THEN Failed(n.p, n.err)
              ELSE
              Let(load_objects(c.p, SubtreeParser_new(c.p)), LAMBDA o :
              IF ~o.ok THEN Failed(o.p, o.err)
              ELSE Going(o.p,
                       [st.v EXCEPT
                          !.objs_loader = FALSE,
                          !.sections =
                             [s \in DOMAIN @ |->
                                IF \E i \in 1..Len(NodesBeforeObjects) :
                                      NodesBeforeObjects[i] = s
                                THEN None ELSE @[s]],
                          !.objects_and_before =
                             Some([objects |-> o.v,
                                   nodes_before_objects |-> st.v.sections])])))
         ELSE Going(c.p, st.v)
    ELSE
    Let(load_section(e.p.recent_node_name.v, c.p, c.v), LAMBDA s :
    IF ~s.ok THEN Failed(s.p, s.err)
    ELSE Going(s.p, [st.v EXCEPT
                        !.sections[e.p.recent_node_name.v] = Some(s.v)]))))

RECURSIVE Fbx7400_load_loop(_)
Fbx7400_load_loop(st) ==
    IF st.done THEN st
    ELSE Let(Fbx7400_load_step(st), LAMBDA n : Fbx7400_load_loop(n))

\* Fbx7400::load_from_parser: the loop, then Objects and Connections are
\* required; Takes is not.
Fbx7400_load_finish(version, r) ==
    IF ~r.ok THEN r
    ELSE IF ~r.v.objects_and_before.some
    THEN Err(r.p, MissingNode("(root)", N_Objects))
    ELSE IF ~r.v.sections[N_Connections].some
    THEN Err(r.p, MissingNode("(root)", N_Connections))
    ELSE Ok(r.p, [version |-> version,
                  connections |-> r.v.sections[N_Connections].v,
                  takes |-> r.v.sections[N_Takes],
                  footer |-> r.v.footer])

Fbx7400_load_from_parser(version, p) ==
    Let(Fbx7400_load_loop(Going(p, Fbx7400_new(version))), LAMBDA r :
        Fbx7400_load_finish(version, r))

\* FbxLoader::load_from_parser: the version of the header; a version that
\* is not supported is unimplemented!().
FbxLoader_load_from_parser(p) ==
    Let(next_event(p), LAMBDA e :
    IF ~e.ok THEN Err(e.p, ParseError(e.err))
    ELSE IF e.v.type # "StartFbx"
    THEN Panic(e.p, "FBX binary parser should return StartFbx as the first event")
    ELSE IF e.v.version >= 7400 /\ e.v.version <= 7599
    THEN Ok(e.p, e.v.version)
    ELSE Panic(e.p, "not yet implemented"))

(***************************************************************************)
(* The loader alone: a caller that hands a parser to                       *)
(* FbxLoader::load_from_parser and loads the document it gets.             *)
(***************************************************************************)
\* The largest number of sections a document lacks.
MaxMissing == 2

\* The versions of the documents: the supported ones and their neighbours.
LoaderVersions == {7300, 7400, 7500, 7599, 7600}

\* The sections of a document, in the order a writer puts them.
Sections == NodesBeforeObjects \o <<N_Objects, N_Connections, N_Takes>>

\* The sequence without its elements at the places in S.
RECURSIVE Without(_, _, _)
Without(seq, S, i) ==
    IF i > Len(seq) THEN <<>>
    ELSE (IF i \in S THEN <<>> ELSE <<seq[i]>>) \o Without(seq, S, i + 1)

\* The sections with Objects at place k.
ObjectsAt(k) ==
    SubSeq(NodesBeforeObjects, 1, k - 1) \o <<N_Objects>>
       \o SubSeq(NodesBeforeObjects, k, Len(NodesBeforeObjects))
       \o <<N_Connections, N_Takes>>

\* The documents: the sections in order with up to MaxMissing of them
\* missing, or all of them with Objects earlier than its place.
LoaderDocs ==
    {Without(Sections, S, 1) :
        S \in {T \in SUBSET (1..Len(Sections)) : Cardinality(T) <= MaxMissing}}
    \cup {ObjectsAt(k) : k \in 1..Len(NodesBeforeObjects)}

\* A document of a supported version, or the whole document of any version.
LoaderInputs ==
    {[version |-> v, doc |-> d] : v \in {7400, 7500}, d \in LoaderDocs}
    \cup {[version |-> v, doc |-> Sections] : v \in LoaderVersions}

Leaf(name, as) == Node(name, as, <<>>, FALSE)
Branch(name, as, kids) == Node(name, as, kids, TRUE)

\* A Properties70 node with one property.
Properties70Node ==
    Branch(N_Properties70, <<>>,
           <<Leaf(N_P, <<AttrString(PropName), AttrString(<<>>),
                         AttrString(<<>>), AttrString(<<>>), AttrI32(1)>>)>>)

\* "GlobalInfo\u{0}\u{1}SceneInfo" and "Model\u{0}\u{1}Model", in short.
NameAndClass == <<103, 0, 1, 115>>

\* A section as a writer puts it.
SectionNode(name) ==
    CASE name = N_FBXHeaderExtension ->
            Branch(name, <<>>,
              <<Leaf(N_FBXHeaderVersion, <<AttrI32(1003)>>),
                Leaf(N_FBXVersion, <<AttrI32(7400)>>),
                Leaf(N_EncryptionType, <<AttrI32(0)>>),
                Branch(N_CreationTimeStamp, <<>>,
                  <<Leaf(N_Version, <<AttrI32(1000)>>),
                    Leaf(N_Year, <<AttrI32(2017)>>),
                    Leaf(N_Month, <<AttrI32(3)>>),
                    Leaf(N_Day, <<AttrI32(14)>>),
                    Leaf(N_Hour, <<AttrI32(15)>>),
                    Leaf(N_Minute, <<AttrI32(9)>>),
                    Leaf(N_Second, <<AttrI32(26)>>),
                    Leaf(N_Millisecond, <<AttrI32(535)>>)>>),
                Leaf(N_Creator, <<AttrString(<<99>>)>>),
                Branch(N_SceneInfo,
                  <<AttrString(NameAndClass), AttrString(<<117>>)>>,
                  <<Leaf(N_Type, <<AttrString(<<117>>)>>),
                    Leaf(N_Version, <<AttrI32(100)>>),
                    Branch(N_MetaData, <<>>,
                      <<Leaf(N_Version, <<AttrI32(100)>>),
                        Leaf(N_Title, <<AttrString(<<>>)>>),
                        Leaf(N_Subject, <<AttrString(<<>>)>>),
                        Leaf(N_Author, <<AttrString(<<>>)>>),
                        Leaf(N_Keywords, <<AttrString(<<>>)>>),
                        Leaf(N_Revision, <<AttrString(<<>>)>>),
                        Leaf(N_Comment, <<AttrString(<<>>)>>)>>),
                    Properties70Node>>)>>)
      [] name = N_FileId -> Leaf(name, <<AttrBinary(<<40, 179, 42, 235>>)>>)
      [] name = N_CreationTime -> Leaf(name, <<AttrString(<<49, 57, 55, 48>>)>>)
      [] name = N_Creator -> Leaf(name, <<AttrString(<<99>>)>>)
      [] name = N_GlobalSettings ->
            Branch(name, <<>>,
              <<Leaf(N_Version, <<AttrI32(1000)>>), Properties70Node>>)
      [] name = N_Documents ->
            Branch(name, <<>>,
              <<Leaf(N_Count, <<AttrI32(1)>>),
                Branch(N_Documents,
                  <<AttrI64(9), AttrString(<<>>), AttrString(<<115>>)>>,
                  <<Leaf(N_Indexes,
                         <<AttrArray(105, 2, 0, LE(1, 4) \o LE(2, 4))>>)>>)>>)
      [] name = N_References -> Leaf(name, <<>>)
      [] name = N_Definitions ->
            Branch(name, <<>>,
              <<Leaf(N_Version, <<AttrI32(100)>>),
                Leaf(N_Count, <<AttrI32(1)>>),
                Branch(N_ObjectType, <<AttrString(<<77>>)>>,
                  <<Leaf(N_Count, <<AttrI32(1)>>),
                    Branch(N_PropertyTemplate, <<AttrString(<<70>>)>>,
                           <<Properties70Node>>)>>)>>)
      [] name = N_Objects ->
            Branch(name, <<>>,
              <<Branch(N_Deformer,
                  <<AttrI64(7), AttrString(NameAndClass),
                    AttrString(ClusterSubclass)>>,
                  <<Leaf(N_Version, <<AttrI32(100)>>)>>)>>)
      [] name = N_Connections ->
            Branch(name, <<>>,
              <<Leaf(N_C, <<AttrString(N_OO), AttrI64(7), AttrI64(0)>>),
                Leaf(N_C, <<AttrString(N_OP), AttrI64(8), AttrI64(7),
                            AttrString(<<100>>)>>)>>)
      [] name = N_Takes ->
            Branch(name, <<>>,
              <<Leaf(N_Current, <<AttrString(<<>>)>>),
                Branch(N_Take, <<AttrString(<<116>>)>>,
                  <<Leaf(N_FileName, <<AttrString(<<116>>)>>),
                    Leaf(N_LocalTime, <<AttrI64(0), AttrI64(46186158)>>),
                    Leaf(N_ReferenceTime,
                         <<AttrI64(0), AttrI64(46186158)>>)>>)>>)

LoaderInit ==
    /\ \E in \in LoaderInputs, kind \in {"basic", "seekable"} :
          /\ stream = EncFbx(in.version, in.version,
                             [i \in 1..Len(in.doc) |-> SectionNode(in.doc[i])],
                             -1)
          /\ parser = RootParser(0, kind)
          /\ loader = [stage |-> "Loader", input |-> in, step |-> "new",
                       version |-> 0, fbx |-> None]
    /\ views = <<>>
    /\ attrs = NoAttributes
    /\ value = NoValue
    /\ hist = NoHist
    /\ last = [op |-> "new", pre |-> parser, before |-> NoHist,
               fetched |-> NoValue, view |-> NoView,
               ok |-> TRUE, err |-> NoError, ev |-> NoEvent, ret |-> FALSE,
               arg |-> 0, size |-> 0]

\* parser.next_event(), once, by a caller that hands the parser to the
\* loader afterwards
LoaderNextEvent ==
    /\ loader.step = "new" /\ last.op = "new"
    /\ NextEvent
    /\ UNCHANGED <<stream, loader>>

\* FbxLoader::load_from_parser(parser)
FbxLoaderLoadFromParser ==
    /\ Alive /\ loader.step = "new"
    /\ \E r \in {FbxLoader_load_from_parser(parser)} :
          /\ parser' = r.p
          /\ loader' = [loader EXCEPT
                           !.step = IF r.ok THEN "Fbx7400" ELSE "failed",
                           !.version = IF r.ok THEN r.v ELSE 0]
          /\ last' = Called("FbxLoader::load_from_parser", parser, NoView,
                            r.ok, r.err, NoEvent, FALSE)
    /\ attrs' = NoAttributes
    /\ value' = NoValue
    /\ UNCHANGED <<stream, views, hist>>

\* FbxLoader7400::load(objs_loader), that is Fbx7400::load_from_parser with
\* the version and the parser of the loader
FbxLoader7400Load ==
    /\ Alive /\ loader.step = "Fbx7400"
    /\ \E r \in {Fbx7400_load_from_parser(loader.version, parser)} :
          /\ parser' = r.p
          /\ loader' = [loader EXCEPT
                           !.step = IF r.ok THEN "loaded" ELSE "failed",
                           !.fbx = IF r.ok THEN Some(r.v) ELSE None]
          /\ last' = Called("Fbx7400::load_from_parser", parser, NoView,
                            r.ok, r.err, NoEvent, FALSE)
    /\ attrs' = NoAttributes
    /\ value' = NoValue
    /\ UNCHANGED <<stream, views, hist>>

LoaderNext == LoaderNextEvent \/ FbxLoaderLoadFromParser \/ FbxLoader7400Load

SpecLoader == LoaderInit /\ [][LoaderNext]_vars

\* Fbx7400::load_from_parser has just returned.
Fbx7400Returned ==
    loader.stage = "Loader" /\ last.op = "Fbx7400::load_from_parser"

\* The document has the section.
HasSection(doc, name) == \E i \in 1..Len(doc) : doc[i] = name

\* The section comes before the first Objects node of the document.
BeforeObjects(doc, name) ==
    \E i \in 1..Len(doc) :
        /\ doc[i] = name
        /\ \A j \in 1..i : doc[j] # N_Objects

\* The places in NodesBeforeObjects of the sections that do not come before
\* the first Objects node.
NotBeforeObjects(doc) ==
    {k \in 1..Len(NodesBeforeObjects) :
        ~BeforeObjects(doc, NodesBeforeObjects[k])}

\* The first of them.
FirstNotBeforeObjects(doc) ==
    NodesBeforeObjects[CHOOSE k \in NotBeforeObjects(doc) :
                          \A j \in NotBeforeObjects(doc) : k <= j]

\* The load failed with MissingNode { parent: "(root)", child }.
MissingUnderRoot(child) ==
    /\ ~last.ok /\ parser.panic = ""
    /\ last.err.type = "MissingNode"
    /\ last.err.a = "(root)" /\ last.err.b = child

\* C23: Fbx7400::load_from_parser fails with MissingNode, parent "(root)",
\* naming the missing child: the first of FBXHeaderExtension, FileId,
\* CreationTime, Creator, GlobalSettings, Documents, References and
\* Definitions that was not loaded when an Objects node is reached;
\* Objects, when EndFbx is reached without an Objects node; Connections,
\* when EndFbx is reached without a Connections node.  A document that
\* lacks nothing, or Takes alone, is loaded.
C23_MissingSectionNamed ==
    Fbx7400Returned
    => IF HasSection(loader.input.doc, N_Objects)
          /\ NotBeforeObjects(loader.input.doc) # {}
       THEN MissingUnderRoot(FirstNotBeforeObjects(loader.input.doc))
       ELSE IF ~HasSection(loader.input.doc, N_Objects)
       THEN MissingUnderRoot(N_Objects)
       ELSE IF ~HasSection(loader.input.doc, N_Connections)
       THEN MissingUnderRoot(N_Connections)
       ELSE /\ last.ok /\ loader.fbx.some
            /\ loader.fbx.v.takes.some
                  <=> HasSection(loader.input.doc, N_Takes)
            /\ loader.fbx.v.footer.some

\* A document without CreationTime and Definitions: the load fails at the
\* Objects node, for CreationTime.
C23_Witness ==
    /\ Fbx7400Returned
    /\ HasSection(loader.input.doc, N_Objects)
    /\ ~HasSection(loader.input.doc, N_CreationTime)
    /\ ~HasSection(loader.input.doc, N_Definitions)
    /\ MissingUnderRoot(N_CreationTime)

\* A document without Takes is loaded; one without Connections is not.
C23_WitnessNoTakes ==
    /\ Fbx7400Returned
    /\ loader.input.doc = Without(Sections, {Len(Sections)}, 1)
    /\ last.ok /\ ~loader.fbx.v.takes.some

C23_WitnessNoConnections ==
    /\ Fbx7400Returned
    /\ ~HasSection(loader.input.doc, N_Connections)
    /\ MissingUnderRoot(N_Connections)

\* FbxLoader::load_from_parser has just returned, for a parser that had
\* read nothing.
FbxLoaderReturned ==
    /\ loader.stage = "Loader"
    /\ last.op = "FbxLoader::load_from_parser"
    /\ last.pre.state = "Header"

\* The version of the document is supported.
Supported(version) == version >= 7400 /\ version <= 7599

\* C24: FbxLoader::load_from_parser on a stream whose header version is
\* outside 7400..=7599 returns an error value to the caller; it does not
\* panic.
C24_UnsupportedVersionIsError ==
    (FbxLoaderReturned /\ ~Supported(loader.input.version))
    => ~last.ok /\ parser.panic = ""

\* What FbxLoader::load_from_parser does: it returns the loader for a
\* supported version and panics with "not yet implemented" for another.
C24_UnsupportedVersionPanics ==
    FbxLoaderReturned
    => IF Supported(loader.input.version)
       THEN last.ok /\ loader.version = loader.input.version
       ELSE ~last.ok /\ parser.panic = "not yet implemented"

(***************************************************************************)
(* Errors of the attribute iterator and the state of the pull parser.      *)
(***************************************************************************)
\* The format errors of next_attribute: an unknown attribute type code and
\* an unknown array encoding.
AttributeFormatError(e) ==
    e.type \in {"InvalidNodeAttributeTypeCode", "UnknownArrayAttributeEncoding"}

\* next_attribute has just failed with a format error.
AttributeFormatErrorReturned ==
    /\ last.op = "next_attribute" /\ ~last.ok
    /\ AttributeFormatError(last.err)

\* C31: when next_attribute fails with a format error, the error is latched
\* in the pull parser: the next_event call that follows fails with the same
\* error instead of skipping the rest of the attributes and going on with
\* the next node.
C31_AttributeErrorLatched ==
    [][(AttributeFormatErrorReturned /\ last'.op = "next_event")
        => (~last'.ok /\ last'.err = last.err)]_vars

\* What the parser does: next_attribute leaves the state of the parser as it
\* was, NodeStarted with no error latched, ...
C31_AttributeErrorLeavesState ==
    AttributeFormatErrorReturned
    => /\ parser.state = "NodeStarted" /\ parser.err = NoError
       /\ parser.open_nodes = last.pre.open_nodes

\* The streams whose only defect is an attribute of an unknown type code,
\* and an array of an unknown encoding.
UnknownCodeStream == NumWellFormed + 7
UnknownEncodingStream == NumWellFormed + 14

\* ... and the next_event that follows skips to the end of the attributes
\* and returns the event that comes after them.
C31_NextEventGoesOn ==
    [][(AttributeFormatErrorReturned /\ last'.op = "next_event"
          /\ parser.sid \in {UnknownCodeStream, UnknownEncodingStream})
        => (last'.ok /\ last'.ev.type \in {"StartNode", "EndNode"}
            /\ parser'.err = NoError)]_vars

(***************************************************************************)
(* The attributes of one node, whatever the caller reads of their values.  *)
(***************************************************************************)
\* What identifies a returned attribute: its kind, its type code and the
\* position of its type code in the stream.
AttributeSig(v) == [cls |-> v.cls, code |-> v.code, start |-> v.start]

\* The k-th attribute next_attribute returns to a caller that reads nothing
\* of the values, from the parser p and the iterator a; cls "stuck" if that
\* caller is never given a k-th attribute.
RECURSIVE UntouchedAttribute(_, _, _)
UntouchedAttribute(p, a, k) ==
    Let(next_attribute(p, a), LAMBDA r :
    IF ~r.ok \/ r.v.cls = "none"
    THEN [cls |-> "stuck", code |-> 0, start |-> 0]
    ELSE IF r.a.num_attributes - r.a.rest_attributes = k
    THEN AttributeSig(r.v)
    ELSE UntouchedAttribute(r.p, r.a, k))

\* next_attribute has just returned an attribute.
AttributeReturned ==
    last.op = "next_attribute" /\ last.ok /\ last.ret

\* The parser as it was when the StartNode of the node whose attributes are
\* live was returned.
AtAttributesBegin ==
    [last.pre EXCEPT !.pos = Last(parser.open_nodes).begin,
                     !.off = Last(parser.open_nodes).begin]

\* C32: the attributes that successive next_attribute calls return on one
\* node (type and start position) do not depend on how much of each special
\* or array value returned before the caller has read: the k-th is the k-th
\* of a caller that reads nothing, and there are at most num_attributes.
C32_AttributesIndependentOfReads ==
    AttributeReturned
    => /\ attrs.num_attributes - attrs.rest_attributes <= attrs.num_attributes
       /\ attrs.rest_attributes >= 0
       /\ AttributeSig(value)
            = UntouchedAttribute(AtAttributesBegin,
                                 new_attributes([NoHeader EXCEPT
                                    !.num_attributes = attrs.num_attributes]),
                                 attrs.num_attributes - attrs.rest_attributes)

\* An attribute is returned after a part of the special value before it was
\* read, ...
C32_Witness ==
    /\ AttributeReturned
    /\ last.fetched.cls = "special"
    /\ last.pre.pos > last.fetched.begin /\ last.pre.pos < last.fetched.end

\* ... after none of it was read, after all of it was, and after elements of
\* the array before it were.
C32_WitnessNone ==
    /\ AttributeReturned
    /\ last.fetched.cls = "special" /\ last.fetched.end > last.fetched.begin
    /\ last.pre.pos = last.fetched.begin

C32_WitnessAll ==
    /\ AttributeReturned
    /\ last.fetched.cls = "special" /\ last.fetched.end > last.fetched.begin
    /\ last.pre.pos = last.fetched.end

C32_WitnessArray ==
    /\ AttributeReturned
    /\ last.fetched.cls = "array"
    /\ last.pre.pos > last.fetched.begin /\ last.pre.pos < last.fetched.end

\* After num_attributes attributes next_attribute returns None.
C32_WitnessNoMore ==
    /\ last.op = "next_attribute" /\ last.ok /\ ~last.ret
    /\ attrs.num_attributes > 0

(***************************************************************************)
(* The direction of skip_to.                                               *)
(***************************************************************************)
\* The assertion of skip_to on the direction of the skip has failed.
Rewound == parser.panic = "skip_to rewinds"

\* C36: whatever the input stream is, malformed node headers included, and
\* whatever next_event, skip_current_node, skip_to_end and next_attribute
\* calls are made, the parser never calls skip_to with a destination behind
\* the current position: the assertion of skip_to never fails.
C36_NeverRewinds == ~Rewound

\* On the streams an encoder lays out, skip_to is never asked to go back.
C36_NoRewindWhenWellFormed == WellFormed(parser.sid) => ~Rewound

\* The calls that run into the assertion: skip_current_node and skip_to_end
\* on a node whose end_offset lies before the position, and next_event after
\* attributes were read beyond the declared end of the attributes.
C36_RewindsOnlyBehindHeaderField ==
    Rewound
    => \/ /\ last.op \in {"skip_current_node", "view.skip_current_node",
                          "view.skip_to_end"}
          /\ \E i \in 1..Len(last.pre.open_nodes) :
                last.pre.open_nodes[i].end < last.pre.pos
       \/ /\ last.op \in NextEventOps
          /\ last.pre.state = "NodeStarted"
          /\ Last(last.pre.open_nodes).attributes_end < last.pre.pos
       \/ /\ last.op = "next_attribute"
          /\ last.fetched.end < last.pre.pos

(***************************************************************************)
(* What a subtree parser returns, and subtree parsers of subtree parsers.  *)
(***************************************************************************)
\* next_event was called through a view made at a depth of 1 or more.
InnerViewNextEvent ==
    last.op = "view.next_event" /\ last.view.initial_depth >= 1

\* C37: a SubtreeParser made at a depth d >= 1 never returns StartFbx or
\* EndFbx from next_event: what it returns before Finished is a StartNode or
\* an EndNode, and when it finds its subtree finished it reads nothing.
C37_SubtreeEventsAreNodes ==
    InnerViewNextEvent
    => /\ last.ok => last.ev.type \in {"StartNode", "EndNode"}
       /\ num_open_nodes(last.pre) < last.view.initial_depth
            => ~last.ok /\ parser.pos = last.pre.pos

\* A view made at depth 1 returned the EndNode of its node, ...
C37_Witness ==
    /\ InnerViewNextEvent /\ last.ok
    /\ last.ev.type = "EndNode"
    /\ num_open_nodes(parser) = last.view.initial_depth - 1

\* ... and Finished at the call after it, before the null header of the
\* implicit root.
C37_WitnessFinished ==
    /\ InnerViewNextEvent /\ ~last.ok
    /\ last.err = Finished /\ last.pre.state = "NodeEnded"
    /\ num_open_nodes(last.pre) = 0 /\ last.view.initial_depth = 1

\* A call was made through a view that was made from another view.
DerivedViewCalled ==
    /\ last.op \in {"view.next_event", "view.skip_current_node"}
    /\ Len(views) >= 2

\* The view the innermost view was made from.
OuterView == views[Len(views) - 1]

\* The innermost view was made from the outer view when that one had read
\* its subtree to the end: it saved a depth below the depth of the outer.
DerivedFromExhausted == Last(views).initial_depth < OuterView.initial_depth

\* C38: a SubtreeParser made through subtree_parser() from a SubtreeParser
\* of depth d stays inside the subtree of the outer one: no call on it
\* brings the number of open nodes below d - 1, and one made from an
\* exhausted view returns no event.
C38_DerivedViewConfined ==
    DerivedViewCalled
    => /\ num_open_nodes(parser) >= OuterView.initial_depth - 1
       /\ DerivedFromExhausted => ~last.ok /\ parser.pos = last.pre.pos

\* What holds: a view made from a view that is not exhausted stays inside
\* the subtree of the outer view.
C38_ConfinedUnlessExhausted ==
    (DerivedViewCalled /\ ~DerivedFromExhausted)
    => num_open_nodes(parser) >= OuterView.initial_depth - 1

\* What a view made from an exhausted view does: it saves a depth below the
\* depth of the outer view, and next_event through it returns the events
\* that follow the subtree of the outer view.
C38_ExhaustedViewGoesOn ==
    (/\ DerivedViewCalled /\ DerivedFromExhausted
     /\ last.op = "view.next_event" /\ WellFormed(parser.sid)
     /\ num_open_nodes(last.pre) = Last(views).initial_depth
     /\ last.pre.state # "Err")
    => last.ok /\ last.ev.type # "None"

(***************************************************************************)
(* The two parser sources side by side: a root parser built with new on a  *)
(* BasicSource and one built with from_seekable on a SeekableSource, over  *)
(* the same stream, given the same calls.                                  *)
(***************************************************************************)
\* What a call on the second parser returned.  The loader record holds the
\* second parser (twin), what its last call returned (result) and whether
\* the parsers agreed at every call before the last one (agreed).
PairResult(r, ev, ret) == [ok |-> r.ok, err |-> r.err, ev |-> ev, ret |-> ret]

\* Both parsers returned the same and report the same position.
SourcesAgree ==
    /\ last.ok = loader.result.ok
    /\ last.err = loader.result.err
    /\ last.ev = loader.result.ev
    /\ last.ret = loader.result.ret
    /\ parser.pos = loader.twin.pos
    /\ parser.panic = loader.twin.panic

\* RootParser::new(stream) and RootParser::from_seekable(stream)
PairInit ==
    /\ \E sid \in 1..NumStreams :
          /\ stream = Streams[sid]
          /\ parser = RootParser(sid, "basic")
          /\ loader = [stage |-> "Pair", twin |-> RootParser(sid, "seekable"),
                       result |-> PairResult(Ok(parser, 0), NoEvent, FALSE),
                       agreed |-> TRUE]
    /\ views = <<>>
    /\ attrs = NoAttributes
    /\ value = NoValue
    /\ hist = NoHist
    /\ last = [op |-> "new", pre |-> parser, before |-> NoHist,
               fetched |-> NoValue, view |-> NoView,
               ok |-> TRUE, err |-> NoError, ev |-> NoEvent, ret |-> FALSE,
               arg |-> 0, size |-> 0]

\* next_event() on both parsers
PairNextEvent ==
    /\ Alive /\ loader.twin.panic = ""
    /\ \E r \in {next_event(parser)}, t \in {next_event(loader.twin)} :
          /\ Returned("next_event", NoView, r)
          /\ loader' = [loader EXCEPT !.twin = t.p,
                                      !.result = PairResult(t, EventOf(t), FALSE),
                                      !.agreed = @ /\ SourcesAgree]
    /\ UNCHANGED <<stream, views>>

\* skip_current_node() on both parsers
PairSkipCurrentNode ==
    /\ Alive /\ loader.twin.panic = ""
    /\ \E r \in {skip_current_node(parser)},
          t \in {skip_current_node(loader.twin)} :
          /\ Skipped("skip_current_node", NoView, r)
          /\ loader' = [loader EXCEPT
                          !.twin = t.p,
                          !.result = PairResult(t, NoEvent, t.ok /\ t.v = TRUE),
                          !.agreed = @ /\ SourcesAgree]
    /\ UNCHANGED <<stream, views>>

PairNext == PairNextEvent \/ PairSkipCurrentNode

SpecPair == PairInit /\ [][PairNext]_vars

\* C39: for the same stream and the same next_event and skip_current_node
\* calls, a root parser on a BasicSource and one on a SeekableSource return
\* the same result at every call and report the same position after it,
\* also on truncated streams where a skip aims beyond the end of the data.
C39_SourcesAgree ==
    loader.stage = "Pair" => SourcesAgree

\* What holds: the parsers agree at every call on a stream that holds all
\* the bytes its headers declare.
C39_SourcesAgreeOnWholeStreams ==
    (loader.stage = "Pair" /\ WellFormed(parser.sid)) => SourcesAgree

\* Where they part: a skip to a declared end that lies beyond the end of
\* the data fails on the BasicSource, which stays where it was, and succeeds
\* on the SeekableSource, which then reports the declared end as its
\* position; skip_current_node returns Err on the one and Ok on the other,
\* and next_event fails with the same error on both at different positions.
C39_SkipBeyondEndDiffers ==
    (/\ loader.stage = "Pair" /\ loader.agreed
     /\ last.pre.open_nodes # <<>> /\ last.pre.pos <= Len(stream))
    => /\ (last.op = "skip_current_node"
            /\ Last(last.pre.open_nodes).end > Len(stream))
           => /\ ~last.ok /\ last.err = IoError /\ parser.pos = last.pre.pos
              /\ loader.result.ok
              /\ loader.twin.pos = Last(last.pre.open_nodes).end
       /\ (last.op = "next_event" /\ last.pre.state = "NodeStarted"
            /\ Last(last.pre.open_nodes).attributes_end > Len(stream))
           => /\ ~last.ok /\ last.err = IoError /\ parser.pos = last.pre.pos
              /\ loader.result = PairResult(Err(parser, IoError), NoEvent, FALSE)
              /\ loader.twin.pos = Last(last.pre.open_nodes).attributes_end

\* The parsers part at such a skip only.
C39_AgreeUntilSkipBeyondEnd ==
    (loader.stage = "Pair" /\ loader.agreed /\ ~SourcesAgree)
    => /\ last.pre.open_nodes # <<>>
       /\ \/ /\ last.op = "skip_current_node"
             /\ Last(last.pre.open_nodes).end > Len(stream)
          \/ /\ last.op = "next_event" /\ last.pre.state = "NodeStarted"
             /\ Last(last.pre.open_nodes).attributes_end > Len(stream)

(***************************************************************************)
(* A driver that calls next_event on the root parser until it receives     *)
(* EndFbx or an error.                                                     *)
(***************************************************************************)
\* A version 7500 stream whose node A declares 2^64 - 1 attribute bytes.
S_Overflow ==
    EncFbx(7500, 7500, <<[Node(NameA, <<>>, <<LeafB>>, TRUE) EXCEPT !.dLen = -1]>>, -1)

DriverStreams == Streams \o <<S_Overflow>>

OverflowStream == NumStreams + 1

\* The driver has received EndFbx or an error.
DriverEnded ==
    /\ last.op = "next_event"
    /\ parser.panic = ""
    /\ ~last.ok \/ last.ev.type = "EndFbx"

DriverInit ==
    /\ \E sid \in 1..Len(DriverStreams), kind \in {"basic", "seekable"},
          build \in {"debug", "release"} :
          /\ stream = DriverStreams[sid]
          /\ parser = Built(RootParser(sid, kind), build)
    /\ views = <<>>
    /\ attrs = NoAttributes
    /\ value = NoValue
    /\ hist = NoHist
    /\ loader = [stage |-> "Driver"]
    /\ last = [op |-> "new", pre |-> parser, before |-> NoHist,
               fetched |-> NoValue, view |-> NoView,
               ok |-> TRUE, err |-> NoError, ev |-> NoEvent, ret |-> FALSE,
               arg |-> 0, size |-> 0]

\* The driver's loop: one more next_event() unless the last one ended it.
DriverNextEvent ==
    /\ Alive /\ ~DriverEnded
    /\ \E r \in {next_event(parser)} : Returned("next_event", NoView, r)
    /\ UNCHANGED <<stream, views, loader>>

DriverNext == DriverNextEvent

\* The driver goes on calling as long as its loop may.
SpecDriver == DriverInit /\ [][DriverNext]_vars /\ WF_vars(DriverNext)

\* C40: for every finite stream, a driver that calls next_event again and
\* again receives EndFbx or an error after finitely many calls.
C40_DriverReceivesEnd == <>DriverEnded

\* The call that returned neither: it panicked.
C40_DriverPanicked == last.op = "next_event" /\ parser.panic # ""

\* Every call that returns an event other than EndFbx consumes at least one
\* byte or pops one open node.
C40_EveryEventProgresses ==
    [][(last'.op = "next_event" /\ last'.ok /\ last'.ev.type # "EndFbx")
         => \/ parser'.pos > parser.pos
            \/ Len(parser'.open_nodes) < Len(parser.open_nodes)]_vars

\* The driver's loop stops after finitely many calls, on every stream.
C40_DriverStops == <>(~Alive \/ DriverEnded)

\* It stops with EndFbx or an error unless a header field rewinds the source
\* or overflows the attribute end.
C40_EndsUnlessPanic ==
    (~Alive) => parser.panic \in {"skip_to rewinds", "attempt to add with overflow"}

\* On the streams whose header fields are accurate the driver receives EndFbx.
C40_WellFormedEndsWithEndFbx ==
    WellFormed(parser.sid) ~> (DriverEnded /\ last.ev.type = "EndFbx")

\* The overflowing attribute length alone makes next_event panic, in either build.
C40_OverflowPanics ==
    (parser.sid = OverflowStream) ~> C40_DriverPanicked

\* On the overflow stream StartFbx is the only event the driver receives
\* from a debug build.
C40_OverflowTrace ==
    (parser.sid = OverflowStream /\ parser.panic # "")
      => /\ hist.nStartFbx = 1
         /\ hist.nStartNode = (IF parser.build = "debug" THEN 0 ELSE 1)
         /\ parser.panic = (IF parser.build = "debug"
                            THEN "attempt to add with overflow"
                            ELSE "skip_to rewinds")

(***************************************************************************)
(* The loop of Fbx7400::load_from_parser, one top-level node at a time.    *)
(***************************************************************************)
\* The documents with a second Objects node after place k.
SecondObjectsAt(k) ==
    SubSeq(Sections, 1, k) \o <<N_Objects>> \o SubSeq(Sections, k + 1, Len(Sections))

\* The place of Objects among the sections.
ObjectsPlace == Len(NodesBeforeObjects) + 1

\* What the second Objects node holds: what the first holds, nothing, or a
\* Takes node.
SecondObjectsContents == {"objects", "nothing", "takes"}

SectionsInputs ==
    {[version |-> v, doc |-> d, second |-> 0, content |-> "objects"] :
        v \in {7400, 7500}, d \in LoaderDocs}
    \cup {[version |-> v, doc |-> SecondObjectsAt(k), second |-> k + 1,
           content |-> c] :
            v \in {7400, 7500}, k \in ObjectsPlace..Len(Sections),
            c \in SecondObjectsContents}

\* The top-level node at place i of the input.
SectionsNode(in, i) ==
    IF i # in.second \/ in.content = "objects" THEN SectionNode(in.doc[i])
    ELSE IF in.content = "nothing" THEN Leaf(N_Objects, <<>>)
    ELSE Branch(N_Objects, <<>>, <<SectionNode(N_Takes)>>)

SectionsInit ==
    /\ \E in \in SectionsInputs, kind \in {"basic", "seekable"} :
          /\ stream = EncFbx(in.version, in.version,
                             [i \in 1..Len(in.doc) |-> SectionsNode(in, i)], -1)
          /\ parser = RootParser(0, kind)
          /\ loader = [stage |-> "Sections", input |-> in, step |-> "new",
                       version |-> 0, v |-> Fbx7400_new(0), k |-> 0,
                       section |-> <<>>, before |-> 0, end |-> 0,
                       loaded |-> FALSE, ignored |-> FALSE, second |-> FALSE,
                       kept |-> TRUE, fbx |-> None]
    /\ views = <<>>
    /\ attrs = NoAttributes
    /\ value = NoValue
    /\ hist = NoHist
    /\ last = [op |-> "new", pre |-> parser, before |-> NoHist,
               fetched |-> NoValue, view |-> NoView,
               ok |-> TRUE, err |-> NoError, ev |-> NoEvent, ret |-> FALSE,
               arg |-> 0, size |-> 0]

\* FbxLoader::load_from_parser(parser), and what Fbx7400::load_from_parser
\* holds before its loop
SectionsStart ==
    /\ Alive /\ loader.step = "new"
    /\ \E r \in {FbxLoader_load_from_parser(parser)} :
          /\ parser' = r.p
          /\ loader' = [loader EXCEPT
                           !.step = IF r.ok THEN "loop" ELSE "failed",
                           !.version = IF r.ok THEN r.v ELSE 0,
                           !.v = Fbx7400_new(IF r.ok THEN r.v ELSE 0)]
          /\ last' = Called("FbxLoader::load_from_parser", parser, NoView,
                            r.ok, r.err, NoEvent, FALSE)
    /\ attrs' = NoAttributes
    /\ value' = NoValue
    /\ UNCHANGED <<stream, views, hist>>

\* One iteration of the loop of Fbx7400::load_from_parser.  The loader keeps
\* for the record: the node the iteration began (its name, its end offset,
\* the open nodes before it), whether a section loader ran and returned Ok
\* (loaded) and whether the node was a second Objects node passed by
\* (ignored).
SectionsStep ==
    /\ Alive /\ loader.step = "loop"
    /\ \E e \in {next_event(parser)},
          r \in {Fbx7400_load_step(Going(parser, loader.v))} :
          LET start   == e.ok /\ e.v.type = "StartNode"
              name    == IF start THEN e.p.recent_node_name.v ELSE <<>>
              ignored == start /\ r.ok /\ name = N_Objects /\ ~loader.v.objs_loader
          IN  /\ parser' = r.p
              /\ loader' = [loader EXCEPT
                     !.step = IF ~r.ok THEN "failed"
                              ELSE IF r.done THEN "broke" ELSE "loop",
                     !.v = IF r.ok THEN r.v ELSE @,
                     !.k = @ + (IF start /\ num_open_nodes(parser) = 0
                                THEN 1 ELSE 0),
                     !.section = name,
                     !.before = num_open_nodes(parser),
                     !.end = IF start THEN e.v.header.end_offset ELSE 0,
                     !.loaded = start /\ r.ok /\ ~ignored,
                     !.ignored = ignored,
                     !.second = @ \/ ignored,
                     !.kept = ~ignored
                              \/ r.v.objects_and_before = loader.v.objects_and_before]
              /\ last' = Called("Fbx7400::load_from_parser (loop)", parser,
                                NoView, r.ok, r.err, NoEvent, FALSE)
    /\ attrs' = NoAttributes
    /\ value' = NoValue
    /\ UNCHANGED <<stream, views, hist>>

\* The rest of Fbx7400::load_from_parser after EndFbx.
SectionsFinish ==
    /\ Alive /\ loader.step = "broke"
    /\ \E r \in {Fbx7400_load_finish(loader.version, Broke(parser, loader.v))} :
          /\ loader' = [loader EXCEPT
                           !.step = IF r.ok THEN "returned" ELSE "failed",
                           !.loaded = FALSE, !.ignored = FALSE,
                           !.fbx = IF r.ok THEN Some(r.v) ELSE None]
          /\ last' = Called("Fbx7400::load_from_parser", parser, NoView,
                            r.ok, r.err, NoEvent, FALSE)
    /\ attrs' = NoAttributes
    /\ value' = NoValue
    /\ UNCHANGED <<stream, parser, views, hist>>

SectionsNext == SectionsStart \/ SectionsStep \/ SectionsFinish

SpecSections == SectionsInit /\ [][SectionsNext]_vars

\* A section loader invoked by the loop has just returned Ok.
SectionLoaded == loader.stage = "Sections" /\ loader.loaded

\* The event the root parser gives next.
NextOf(p) == Let(next_event(p), LAMBDA e : [e EXCEPT !.p = e.p.recent_node_name])

\* C33: when a section loader invoked by Fbx7400::load_from_parser returns
\* Ok, the root parser has as many open nodes as before the StartNode of the
\* section and stands at the end of the section; for a top-level section
\* that is no open node, and the next event is the StartNode of the
\* following top-level node or EndFbx.
C33_SectionConsumesItsSubtree ==
    SectionLoaded =>
       /\ num_open_nodes(parser) = loader.before
       /\ parser.pos = loader.end
       /\ loader.before = 0 =>
            /\ num_open_nodes(parser) = 0
            /\ NextOf(parser).ok
            /\ IF loader.k < Len(loader.input.doc)
               THEN /\ NextOf(parser).v.type = "StartNode"
                    /\ NextOf(parser).p = Some(loader.input.doc[loader.k + 1])
               ELSE NextOf(parser).v.type = "EndFbx"

\* A top-level section with children was loaded and a top-level node follows.
C33_Witness ==
    /\ SectionLoaded /\ loader.before = 0
    /\ loader.section = N_Documents
    /\ loader.k < Len(loader.input.doc)

\* The last top-level section was loaded: EndFbx follows.
C33_WitnessLast ==
    /\ SectionLoaded /\ loader.before = 0
    /\ loader.k = Len(loader.input.doc)

\* The objects were loaded by load_objects.
C33_WitnessObjects ==
    SectionLoaded /\ loader.before = 0 /\ loader.section = N_Objects

\* Every top-level section loader is invoked and returns Ok somewhere.
C33_WitnessSkipped ==
    SectionLoaded /\ loader.before = 0 /\ loader.section = N_FileId

\* The loop has just passed by a second Objects node.
SecondObjectsIgnored == loader.stage = "Sections" /\ loader.ignored

\* Fbx7400::load_from_parser has ended on a document with a second Objects
\* node it met.
EndedAfterSecondObjects ==
    /\ loader.stage = "Sections" /\ loader.second
    /\ loader.step \in {"failed", "returned"}

\* C34: a second top-level Objects node is ignored: its whole subtree is
\* skipped, the objects of the first are kept, and loading goes on with the
\* next top-level node without error or panic.
C34_SecondObjectsSkipped ==
    /\ SecondObjectsIgnored =>
          /\ num_open_nodes(parser) = 0
          /\ parser.pos = loader.end
          /\ loader.kept
    /\ EndedAfterSecondObjects =>
          /\ loader.step = "returned"
          /\ parser.panic = ""

\* What the code does: the objects of the first Objects node are kept, but
\* the second node stays open, its children and its end unread.
C34_SecondObjectsStaysOpen ==
    SecondObjectsIgnored =>
       /\ loader.kept
       /\ num_open_nodes(parser) = 1
       /\ parser.pos <= loader.end
       /\ parser.state = "NodeStarted"

\* No document with a second Objects node is loaded: the load ends with
\* UnexpectedNode for a child of that node or with the panic of
\* unreachable!() at its EndNode.
C34_SecondObjectsNeverLoads ==
    EndedAfterSecondObjects =>
       /\ loader.step = "failed"
       /\ \/ parser.panic = "internal error: entered unreachable code"
          \/ parser.panic = "" /\ last.err.type = "UnexpectedNode"

\* Both ends happen.
C34_EndsInPanic == EndedAfterSecondObjects /\ parser.panic # ""
C34_EndsInError == EndedAfterSecondObjects /\ parser.panic = ""
\* A child of the second Objects node is loaded as a top-level section.
C34_ChildLoadedAsSection == SectionLoaded /\ loader.before = 1

(***************************************************************************)
(* GenericNode::load_from_parser alone: a caller that reads some events    *)
(* from the root parser and then loads the rest of the level it is in.     *)
(***************************************************************************)
\* A node with a string that is not UTF-8, a binary and an i64.
MixedA == Node(NameA, <<AttrString(<<255>>), AttrBinary(<<1, 2>>), AttrI64(9)>>,
               <<LeafB, NestB>>, TRUE)

GenericForests ==
    {<<>>, FlatKids, NestKids, <<ArrA>>, <<TermA, LeafE>>, <<PrimN, BoolB>>,
     <<MixedA, NestA>>}

\* The streams: a forest, its version, and the version its footer stores.
GenericInputs ==
    {[version |-> v, footer |-> f, kids |-> k] :
        v \in {7400, 7500}, f \in {7400, 7500}, k \in GenericForests}

\* The events of a forest as the writer put them, each with its node.
RECURSIVE TreeEvents(_)
TreeEvents(kids) ==
    IF kids = <<>> THEN <<>>
    ELSE <<[type |-> "StartNode", node |-> Head(kids)]>>
           \o TreeEvents(Head(kids).kids)
           \o <<[type |-> "EndNode", node |-> Head(kids)]>>
           \o TreeEvents(Tail(kids))

\* The events of a whole stream.
StreamEvents(in) ==
    <<[type |-> "StartFbx", node |-> 0]>> \o TreeEvents(in.kids)
       \o <<[type |-> "EndFbx", node |-> 0]>>

\* The place in es, from i on and d levels deep, of the event that closes
\* the level.
RECURSIVE LevelEnd(_, _, _)
LevelEnd(es, i, d) ==
    IF i > Len(es) THEN Len(es)
    ELSE IF es[i].type \in {"EndNode", "EndFbx"}
    THEN IF d = 0 THEN i ELSE LevelEnd(es, i + 1, d - 1)
    ELSE IF es[i].type = "StartNode" THEN LevelEnd(es, i + 1, d + 1)
    ELSE LevelEnd(es, i + 1, d)

\* The events of the given types among es[i..end] that belong to the level
\* itself, d being the depth below it: the StartNode of a sibling (d = 0),
\* the EndNode of a sibling (d = 1) and the event closing the level (d = 0).
RECURSIVE AtLevel(_, _, _, _, _)
AtLevel(es, types, i, end, d) ==
    IF i > end THEN <<>>
    ELSE (IF es[i].type \in types
             /\ d <= (IF es[i].type = "StartNode" THEN 0 ELSE 1)
          THEN <<es[i]>> ELSE <<>>)
         \o AtLevel(es, types, i + 1, end,
                    CASE es[i].type = "StartNode" -> d + 1
                      [] es[i].type = "EndNode"   -> d - 1
                      [] OTHER                    -> d)

\* The attribute a writer encoded as bs, as an OwnedAttribute.
ExpectedOwned(bs) ==
    IF PrimitiveWidth(bs[1]) > 0
    THEN Owned(bs[1], IF bs[1] = 67 THEN bs[2] % 2
                      ELSE le_sum(SubSeq(bs, 2, Len(bs))))
    ELSE IF bs[1] = 83
    THEN Owned(83, [ok |-> \A i \in 6..Len(bs) : bs[i] < 128,
                    v |-> SubSeq(bs, 6, Len(bs))])
    ELSE IF bs[1] = 82 THEN Owned(82, SubSeq(bs, 6, Len(bs)))
    ELSE Owned(bs[1],
               [i \in 1..le_sum(SubSeq(bs, 2, 5)) |->
                   SubSeq(bs, 14 + (i - 1) * ElementWidth(bs[1]),
                          13 + i * ElementWidth(bs[1]))])

\* The node a writer encoded, as a GenericNode.
RECURSIVE ExpectedGeneric(_)
ExpectedGeneric(n) ==
    [name |-> n.name,
     attributes |-> [i \in 1..Len(n.attrs) |-> ExpectedOwned(n.attrs[i])],
     children |-> [i \in 1..Len(n.kids) |-> ExpectedGeneric(n.kids[i])]]

GenericInit ==
    /\ \E in \in GenericInputs, kind \in {"basic", "seekable"} :
          /\ stream = EncFbx(in.version, in.footer, in.kids, -1)
          /\ parser = RootParser(0, kind)
          /\ loader = [stage |-> "Generic", input |-> in, step |-> "new",
                       consumed |-> 0, through |-> "none", result |-> NoNodes]
    /\ views = <<>>
    /\ attrs = NoAttributes
    /\ value = NoValue
    /\ hist = NoHist
    /\ last = [op |-> "new", pre |-> parser, before |-> NoHist,
               fetched |-> NoValue, view |-> NoView,
               ok |-> TRUE, err |-> NoError, ev |-> NoEvent, ret |-> FALSE,
               arg |-> 0, size |-> 0]

\* parser.next_event() of the caller, before the load
GenericNextEvent ==
    /\ Alive /\ loader.step = "new" /\ last.ok
    /\ \E r \in {next_event(parser)} :
          /\ Returned("next_event", NoView, r)
          /\ loader' = [loader EXCEPT !.consumed = @ + (IF r.ok THEN 1 ELSE 0)]
    /\ UNCHANGED <<stream, views>>

\* GenericNode::load_from_parser(&mut parser), or
\* GenericNode::load_from_parser(&mut parser.subtree_parser())
GenericNodeLoadFromParser ==
    /\ Alive /\ loader.step = "new"
    /\ \E through \in {"root", "subtree"} :
       \E r \in {GenericNode_load_from_parser(
                    parser, IF through = "root" THEN 0
                            ELSE SubtreeParser_new(parser))} :
          /\ parser' = r.p
          /\ loader' = [loader EXCEPT
                           !.step = IF r.ok THEN "loaded" ELSE "failed",
                           !.through = through,
                           !.result = IF r.ok THEN r.v ELSE NoNodes]
          /\ last' = Called("GenericNode::load_from_parser", parser, NoView,
                            r.ok, r.err, NoEvent, FALSE)
    /\ attrs' = NoAttributes
    /\ value' = NoValue
    /\ UNCHANGED <<stream, views, hist>>

\* parser.next_event() of the caller, after the load
GenericNextEventAfter ==
    /\ Alive /\ loader.step = "loaded"
    /\ \E r \in {next_event(parser)} : Returned("next_event", NoView, r)
    /\ loader' = [loader EXCEPT !.step = "after"]
    /\ UNCHANGED <<stream, views>>

GenericNext ==
    GenericNextEvent \/ GenericNodeLoadFromParser \/ GenericNextEventAfter

SpecGeneric == GenericInit /\ [][GenericNext]_vars

\* GenericNode::load_from_parser has just returned.
GenericReturned ==
    loader.stage = "Generic" /\ last.op = "GenericNode::load_from_parser"

\* The events of the stream the caller had not read before the load, and
\* the place among them of the event that closes the level.
RestEvents ==
    SubSeq(StreamEvents(loader.input), loader.consumed + 1,
           Len(StreamEvents(loader.input)))
RestEnd == LevelEnd(RestEvents, 1, 0)

\* The siblings the writer put at the level after what the caller had read.
RestSiblings == AtLevel(RestEvents, {"StartNode"}, 1, RestEnd, 0)

\* The events the call was given, as events with their types alone.
GivenEvents ==
    [i \in 1..Len(loader.result.events) |->
        [type |-> loader.result.events[i], node |-> 0]]

\* The footer of the stream is good.
GoodFooter == loader.input.footer = loader.input.version

\* C35: GenericNode::load_from_parser, started at the root or inside an
\* open node of a well-formed stream, returns the remaining siblings of the
\* level in stream order, each with its attributes in order and all its
\* children; for N siblings it reads N StartNode and N + 1 closing events at
\* that level, the last of them the EndNode or EndFbx that closes the level;
\* and it returns a footer only if an EndFbx with a good footer was read.
C35_LoadsRemainingSiblings ==
    (GenericReturned /\ loader.consumed < Len(StreamEvents(loader.input)))
    => /\ last.ok
       /\ loader.result.nodes =
             [i \in 1..Len(RestSiblings) |-> ExpectedGeneric(RestSiblings[i].node)]
       /\ loader.result.events =
             [i \in 1..RestEnd |-> RestEvents[i].type]
       /\ Len(AtLevel(GivenEvents, {"StartNode"}, 1, Len(GivenEvents), 0))
             = Len(loader.result.nodes)
       /\ Len(AtLevel(GivenEvents, {"EndNode", "EndFbx"}, 1, Len(GivenEvents), 0))
             = Len(loader.result.nodes) + 1
       /\ loader.result.footer.some
             <=> (Last(loader.result.events) = "EndFbx" /\ GoodFooter)
       /\ loader.result.footer.some
             => loader.result.footer.v.version = loader.input.version
       /\ num_open_nodes(parser) = Max(0, num_open_nodes(last.pre) - 1)

\* The load began inside an open node with siblings left, some with
\* attributes and children.
C35_Witness ==
    /\ GenericReturned /\ last.ok
    /\ num_open_nodes(last.pre) > 0
    /\ Len(loader.result.nodes) >= 2
    /\ \E i \in 1..Len(loader.result.nodes) :
          /\ loader.result.nodes[i].children # <<>>
    /\ \E i \in 1..Len(loader.result.nodes) :
          /\ loader.result.nodes[i].attributes # <<>>

\* The load began at the root and returned the footer.
C35_WitnessFooter ==
    /\ GenericReturned /\ last.ok
    /\ loader.result.footer.some /\ Len(loader.result.nodes) >= 2

\* The load read EndFbx and returned no footer: the footer was not good.
C35_WitnessNoFooter ==
    /\ GenericReturned /\ last.ok
    /\ Last(loader.result.events) = "EndFbx" /\ ~loader.result.footer.some

\* The load was the first call on the parser: StartFbx was given to it.
C35_WitnessStartFbx ==
    GenericReturned /\ last.ok /\ Head(loader.result.events) = "StartFbx"

\* After the whole stream was read the call returns the error of the parser.
C35_AfterEndFbx ==
    (GenericReturned /\ loader.consumed = Len(StreamEvents(loader.input)))
    => ~last.ok /\ last.err = Finished

=============================================================================
